---- MODULE Spec2Model ----
(***************************************************************************)
(* Live negotiation session: the session reducer (sessionReducer.ts), the  *)
(* counter-strategy catalog with its cooldown tracker                      *)
(* (CounterStrategyEngine.ts), the SessionEngine and the useLiveSession    *)
(* hook that wires them together.                                          *)
(*                                                                         *)
(* Spec       the reducer driven by arbitrary SessionAction events         *)
(* SpecClock  a running session receiving TACTIC_DETECTED as time passes   *)
(* SpecMerge  sessions receiving lists of several patterns                 *)
(* SpecSys    the hook and the engine driving the reducer                  *)
(* SpecStop   stopSession called again while a stop is under way           *)
(* SpecSpeech fragments transcribed with pauses between them               *)
(***************************************************************************)
EXTENDS Integers, Sequences, FiniteSets, TLC

VARIABLES
    state,            \* SessionState held by useReducer
    cooldownTracker,  \* CounterStrategyEngine's module-level Map (0 = no entry)
    now,              \* Date.now()
    ticks,            \* number of clock advances so far
    lastDispatchMs,   \* Date.now() read by the latest dispatch site
    lastAction,       \* the latest SessionAction or callback that ran
    engine,           \* the SessionEngine instance
    hook,             \* the refs of useLiveSession
    inflight,         \* sessions with an analyzeSession() promise pending
    session,          \* the Session object built by SessionEngine.stopSession
    sessionCount,     \* sessions started so far
    heard,            \* transcriptions ingested in the current session
    stopRequested,    \* sessions whose stopSession/cancelSession was invoked
    notified,         \* whether the latest step invoked updateCallback
    saved,            \* per session id, the calls of saveSession(session)
    spoken,           \* the text of the latest onTranscription call of the session
    stopAgain         \* a stopSession call made while another is suspended

\* ------------------------------------------------------------------ bounds
MaxTicks == 2
MaxLag == 2
MaxTranscript == 1
MaxBatch == 2
MaxSessions == 2
MaxHeard == 2
MaxStopAgain == 1
MaxFragments == 3
MaxPauses == 2

\* ------------------------------------------------------- program constants
CONFIDENCE_THRESHOLD == 70
TACTIC_COOLDOWN_MS == 8000
COOLDOWN_MS == 10000

NULL == "null"

\* ------------------------------------------------------------ data domains
\* Date.now() when the model starts, and the amounts by which it advances.
StartClock == 1000
ClockSteps == {2, TACTIC_COOLDOWN_MS - 1}

NegotiationMode == {"sales", "job_interview"}

\* NegotiationPattern values that occur in the delivered patterns.
NegotiationPattern == {"anchoring", "budget_objection", "strength_signal"}

\* DetectedPattern objects the classifier can hand over (id, pattern,
\* confidenceScore, transcript are the fields the reducer and engine read).
DetectedPatterns ==
    { [id |-> "anchoring_1", pattern |-> "anchoring",
       confidenceScore |-> 65, transcript |-> "t1"],
      [id |-> "anchoring_2", pattern |-> "anchoring",
       confidenceScore |-> 75, transcript |-> "t1"],
      [id |-> "budget_objection_3", pattern |-> "budget_objection",
       confidenceScore |-> 80, transcript |-> "t2"],
      [id |-> "strength_signal_4", pattern |-> "strength_signal",
       confidenceScore |-> 95, transcript |-> "t2"] }

\* Pattern lists carried by one TACTIC_DETECTED action.
PatternLists ==
    UNION { [1..n -> DetectedPatterns] : n \in 0..MaxBatch }

\* Lists of at most one pattern.
SinglePatternLists ==
    {<<>>} \cup { <<p>> : p \in DetectedPatterns }

FocusScores == {55, 100}
AudioLevels == {1}
ErrorMessages == {"Failed to start recording. Please check microphone permissions."}

\* ------------------------------------------------- CounterStrategyEngine.ts
COUNTER_STRATEGY_MAP ==
    "anchoring" :>
        [suggestions |-> <<"Ask for a detailed cost breakdown",
                          "Present your own alternative anchor point",
                          "Request comparison data from multiple sources">>,
         explanation |-> "Anchoring attempts to set a psychological reference point. Counter by introducing your own data-backed reference or questioning their basis."]
    @@ "budget_objection" :>
        [suggestions |-> <<"Ask about budget flexibility and approval thresholds",
                          "Break pricing into smaller phases or milestones",
                          "Highlight ROI and value instead of focusing on cost">>,
         explanation |-> "Budget objection often masks value hesitation rather than a real constraint. Shift the conversation from cost to return on investment."]
    @@ "authority_pressure" :>
        [suggestions |-> <<"Ask for the specific decision criteria being used",
                          "Suggest a joint review with all stakeholders",
                          "Delay final commitment until decision-maker is present">>,
         explanation |-> "Authority pressure reduces your negotiation space by introducing an unseen decision-maker. Get access to the real authority."]
    @@ "time_pressure" :>
        [suggestions |-> <<"Ask if the deadline is truly final or flexible",
                          "Introduce a new variable to reset the timeline",
                          "Propose a pause - revisit with fresh perspective">>,
         explanation |-> "Urgency framing creates artificial pressure to force quick decisions. Verify the deadline and resist rushing critical commitments."]
    @@ "deflection" :>
        [suggestions |-> <<"Pin down specific concerns driving the hesitation",
                          "Set a concrete follow-up date and time right now",
                          "Ask what information would help them decide today">>,
         explanation |-> "Deflection delays decisions without surfacing real objections. Gently identify what's actually holding them back."]
    @@ "positive_signal" :>
        [suggestions |-> <<"Capitalize on momentum - move toward commitment",
                          "Summarize agreed points and lock them in writing",
                          "Ask about next steps while enthusiasm is high">>,
         explanation |-> "Positive signals indicate openness. Strike while the iron is hot - clarify terms and advance toward agreement."]
    @@ "negative_signal" :>
        [suggestions |-> <<"Probe for the specific concern behind the negativity",
                          "Acknowledge their worry and provide concrete evidence",
                          "Offer an alternative approach that addresses the issue">>,
         explanation |-> "Negative signals reveal underlying objections. Address them directly with empathy and data rather than ignoring them."]
    @@ "commitment_language" :>
        [suggestions |-> <<"Document the agreement immediately in writing",
                          "Clarify all remaining terms before finalizing",
                          "Confirm timeline and deliverables for next steps">>,
         explanation |-> "Commitment language signals readiness to close. Ensure all details are clear and get confirmation in writing."]

\* getPatternDefinition(tactic).displayName
DisplayName(tactic) ==
    CASE tactic = "anchoring" -> "Anchoring"
      [] tactic = "budget_objection" -> "Budget Objection"
      [] tactic = "authority_pressure" -> "Authority Pressure"
      [] tactic = "time_pressure" -> "Time Pressure"
      [] tactic = "deflection" -> "Deflection"
      [] tactic = "strength_signal" -> "Strength Signal"
      [] tactic = "positive_signal" -> "Positive Signal"
      [] tactic = "negative_signal" -> "Negative Signal"
      [] tactic = "commitment_language" -> "Commitment Language"

\* The absent CounterStrategy (null).
NullStrategy ==
    [tactic |-> NULL, tacticDisplayName |-> "", confidence |-> 0,
     suggestions |-> <<>>, explanation |-> "", timestamp |-> 0]

EmptyTracker == [t \in NegotiationPattern |-> 0]

\* The gate with the tracker stamped before the cooldown test: a call
\* rejected on cooldown restarts the cooldown.
StampBeforeCooldown(tactic, confidence, cooldownMs, threshold, tr, t) ==
    IF confidence < threshold
    THEN [strategy |-> NullStrategy, tracker |-> tr]
    ELSE IF tr[tactic] # 0 /\ t - tr[tactic] < cooldownMs
    THEN [strategy |-> NullStrategy, tracker |-> [tr EXCEPT ![tactic] = t]]
    ELSE IF tactic \notin DOMAIN COUNTER_STRATEGY_MAP
    THEN [strategy |-> NullStrategy, tracker |-> tr]
    ELSE [strategy |->
            [tactic |-> tactic,
             tacticDisplayName |-> DisplayName(tactic),
             confidence |-> confidence,
             suggestions |-> COUNTER_STRATEGY_MAP[tactic].suggestions,
             explanation |-> COUNTER_STRATEGY_MAP[tactic].explanation,
             timestamp |-> t],
          tracker |-> [tr EXCEPT ![tactic] = t]]

\* The gate with one cooldown for all tactics: a returned strategy stamps
\* every entry of the tracker.
GlobalCooldown(tactic, confidence, cooldownMs, threshold, tr, t) ==
    IF confidence < threshold
    THEN [strategy |-> NullStrategy, tracker |-> tr]
    ELSE IF tr[tactic] # 0 /\ t - tr[tactic] < cooldownMs
    THEN [strategy |-> NullStrategy, tracker |-> tr]
    ELSE IF tactic \notin DOMAIN COUNTER_STRATEGY_MAP
    THEN [strategy |-> NullStrategy, tracker |-> tr]
    ELSE [strategy |->
            [tactic |-> tactic,
             tacticDisplayName |-> DisplayName(tactic),
             confidence |-> confidence,
             suggestions |-> COUNTER_STRATEGY_MAP[tactic].suggestions,
             explanation |-> COUNTER_STRATEGY_MAP[tactic].explanation,
             timestamp |-> t],
          tracker |-> [x \in DOMAIN tr |-> t]]

\* The catalog without its cooldown gate.
NoCatalogCooldown(tactic, confidence, cooldownMs, threshold, tr, t) ==
    IF confidence < threshold
    THEN [strategy |-> NullStrategy, tracker |-> tr]
    ELSE IF tactic \notin DOMAIN COUNTER_STRATEGY_MAP
    THEN [strategy |-> NullStrategy, tracker |-> tr]
    ELSE [strategy |->
            [tactic |-> tactic,
             tacticDisplayName |-> DisplayName(tactic),
             confidence |-> confidence,
             suggestions |-> COUNTER_STRATEGY_MAP[tactic].suggestions,
             explanation |-> COUNTER_STRATEGY_MAP[tactic].explanation,
             timestamp |-> t],
          tracker |-> [tr EXCEPT ![tactic] = t]]

\* generateCounterStrategies(tactic, confidence, cooldownMs, threshold), run
\* with the tracker tr at wall-clock time t: the strategy returned (or
\* NullStrategy) and the tracker afterwards.
generateCounterStrategies(tactic, confidence, cooldownMs, threshold, tr, t) ==
    IF confidence < threshold
    THEN [strategy |-> NullStrategy, tracker |-> tr]
    ELSE IF tr[tactic] # 0 /\ t - tr[tactic] < cooldownMs
    THEN [strategy |-> NullStrategy, tracker |-> tr]
    ELSE IF tactic \notin DOMAIN COUNTER_STRATEGY_MAP
    THEN [strategy |-> NullStrategy, tracker |-> tr]
    ELSE [strategy |->
            [tactic |-> tactic,
             tacticDisplayName |-> DisplayName(tactic),
             confidence |-> confidence,
             suggestions |-> COUNTER_STRATEGY_MAP[tactic].suggestions,
             explanation |-> COUNTER_STRATEGY_MAP[tactic].explanation,
             timestamp |-> t],
          tracker |-> [tr EXCEPT ![tactic] = t]]

\* resetAllCooldowns()
resetAllCooldowns == EmptyTracker

\* ---------------------------------------------------------- sessionReducer.ts
createInitialState(mode) ==
    [status |-> "IDLE",
     mode |-> mode,
     transcript |-> <<>>,
     transcriptText |-> "",
     detectedPatterns |-> <<>>,
     tactic |-> NULL,
     confidence |-> 0,
     suggestions |-> <<>>,
     activeStrategy |-> NullStrategy,
     lastTacticAtMs |-> 0,
     startTime |-> 0,
     duration |-> 0,
     focusScore |-> 100,
     audioLevel |-> 0,
     error |-> NULL]

\* Array.prototype.sort((a, b) => b.confidenceScore - a.confidenceScore): a
\* stable sort, highest confidence first.  InsertByConfidence puts p behind
\* every element that does not sort after it.
RECURSIVE InsertByConfidence(_, _)
InsertByConfidence(sorted, p) ==
    IF sorted = <<>> THEN <<p>>
    ELSE IF Head(sorted).confidenceScore >= p.confidenceScore
    THEN <<Head(sorted)>> \o InsertByConfidence(Tail(sorted), p)
    ELSE <<p>> \o sorted

RECURSIVE SortByConfidence(_)
SortByConfidence(list) ==
    IF list = <<>> THEN <<>>
    ELSE InsertByConfidence(SortByConfidence(SubSeq(list, 1, Len(list) - 1)),
                            list[Len(list)])

PatternIds(list) == { list[i].id : i \in 1..Len(list) }

\* The merge with the id filter left out.
KeepAllPatterns(existing, patterns) == patterns

\* patterns.filter((p) => !existingIds.has(p.id))
FilterNewPatterns(existing, patterns) ==
    SelectSeq(patterns, LAMBDA p : p.id \notin PatternIds(existing))

\* The merge with the sort left out.
AppendPatterns(existing, patterns) ==
    existing \o FilterNewPatterns(existing, patterns)

\* The merge replaced by the latest delivery: a list that brings patterns
\* takes the place of the stored ones.
LatestDeliveryOnly(existing, patterns) ==
    IF patterns = <<>> THEN existing ELSE SortByConfidence(patterns)

\* [...state.detectedPatterns, ...newPatterns] sorted by confidence
MergePatterns(existing, patterns) ==
    SortByConfidence(existing \o FilterNewPatterns(existing, patterns))

\* state.transcript.map(chunk => hasPattern ? {...chunk, hasPattern: true} : chunk)
MarkTranscript(transcript, newPatterns) ==
    [i \in 1..Len(transcript) |->
        IF \E j \in 1..Len(newPatterns) :
              newPatterns[j].transcript = transcript[i].text
        THEN [transcript[i] EXCEPT !.hasPattern = TRUE]
        ELSE transcript[i]]

\* The status guard written against the wrong status.
NotIdle(s) == s.status # "IDLE"

\* The status guard that lets an idle session through.
NotEnded(s) == s.status # "ENDED"

\* The guard of TRANSCRIPT_CHUNK and TACTIC_DETECTED (negated in the code:
\* state.status !== 'RUNNING' returns the state as it is).
IsRunning(s) == s.status = "RUNNING"

\* Guard 2 of TACTIC_DETECTED
BelowThreshold(topPattern) ==
    topPattern.confidenceScore < CONFIDENCE_THRESHOLD

\* Guard 3 left out.
NoReducerCooldown(s, topPattern, timestampMs) == FALSE

\* Guard 3 of TACTIC_DETECTED
OnReducerCooldown(s, topPattern, timestampMs) ==
    /\ topPattern.pattern = s.tactic
    /\ timestampMs - s.lastTacticAtMs < TACTIC_COOLDOWN_MS

\* The fields every running TACTIC_DETECTED writes.
WithPatterns(s, allPatterns, updatedTranscript, focusScore) ==
    [s EXCEPT !.detectedPatterns = allPatterns,
              !.transcript = updatedTranscript,
              !.focusScore = focusScore]

\* The accept path storing whatever the catalog returned.
AcceptReturned(s, topPattern, strategy, timestampMs) ==
    [s EXCEPT !.tactic = topPattern.pattern,
              !.confidence = topPattern.confidenceScore,
              !.suggestions = strategy.suggestions,
              !.activeStrategy = strategy,
              !.lastTacticAtMs = timestampMs]

\* The accept path: all guards passed.
AcceptTactic(s, topPattern, strategy, timestampMs) ==
    [s EXCEPT !.tactic = topPattern.pattern,
              !.confidence = topPattern.confidenceScore,
              !.suggestions = IF strategy # NullStrategy
                              THEN strategy.suggestions ELSE s.suggestions,
              !.activeStrategy = IF strategy # NullStrategy
                                 THEN strategy ELSE s.activeStrategy,
              !.lastTacticAtMs = timestampMs]

\* case 'TACTIC_DETECTED', run with the tracker tr at wall-clock time t.
TacticDetected(s, a, tr, t) ==
    IF ~IsRunning(s) THEN [state |-> s, tracker |-> tr]
    ELSE
      LET newPatterns == FilterNewPatterns(s.detectedPatterns, a.patterns)
          allPatterns == MergePatterns(s.detectedPatterns, a.patterns)
          updatedTranscript == MarkTranscript(s.transcript, newPatterns)
          base == WithPatterns(s, allPatterns, updatedTranscript, a.focusScore)
      IN IF allPatterns = <<>> THEN [state |-> base, tracker |-> tr]
         ELSE
           LET topPattern == allPatterns[1]
           IN IF BelowThreshold(topPattern)
              THEN [state |-> base, tracker |-> tr]
              ELSE IF OnReducerCooldown(s, topPattern, a.timestampMs)
              THEN [state |-> base, tracker |-> tr]
              ELSE
                LET g == generateCounterStrategies(
                             topPattern.pattern, topPattern.confidenceScore,
                             TACTIC_COOLDOWN_MS, CONFIDENCE_THRESHOLD, tr, t)
                IN [state |-> AcceptTactic(base, topPattern, g.strategy,
                                           a.timestampMs),
                    tracker |-> g.tracker]

\* case 'TRANSCRIPT_CHUNK'
TranscriptChunk(s, a) ==
    IF ~IsRunning(s) THEN s
    ELSE [s EXCEPT !.transcript = Append(s.transcript, a.chunk),
                   !.transcriptText = s.transcriptText \o " " \o a.chunk.text]

\* case 'START_SESSION'
StartSessionCase(a) ==
    [createInitialState(a.mode) EXCEPT !.status = "RUNNING",
                                       !.startTime = a.startTime]

\* createInitialState() with its default mode.
DefaultReset(s) == createInitialState("sales")

\* case 'RESET'
ResetCase(s) == createInitialState(s.mode)

\* case 'STOP_SESSION'
StopSessionCase(s) == [s EXCEPT !.status = "ENDED"]

\* sessionReducer(state, action), run with the cooldown tracker tr at
\* wall-clock time t: the state returned and the tracker afterwards.
sessionReducer(s, a, tr, t) ==
    CASE a.type = "START_SESSION" ->
            [state |-> StartSessionCase(a), tracker |-> tr]
      [] a.type = "STOP_SESSION" ->
            [state |-> StopSessionCase(s), tracker |-> tr]
      [] a.type = "TRANSCRIPT_CHUNK" ->
            [state |-> TranscriptChunk(s, a), tracker |-> tr]
      [] a.type = "TACTIC_DETECTED" -> TacticDetected(s, a, tr, t)
      [] a.type = "UPDATE_DURATION" ->
            [state |-> [s EXCEPT !.duration = a.duration], tracker |-> tr]
      [] a.type = "UPDATE_AUDIO_LEVEL" ->
            [state |-> [s EXCEPT !.audioLevel = a.level], tracker |-> tr]
      [] a.type = "SET_ERROR" ->
            [state |-> [s EXCEPT !.error = a.message], tracker |-> tr]
      [] a.type = "RESET" ->
            [state |-> ResetCase(s), tracker |-> tr]
      [] OTHER -> [state |-> s, tracker |-> tr]

\* ------------------------------------------------------------------ events
\* TranscriptChunk objects handed to the reducer.
Chunks ==
    { [id |-> "chunk_1", text |-> "t1", timestamp |-> StartClock,
       hasPattern |-> FALSE] }

Durations == {1000}

\* Date.now() values a dispatch site can have read before the reducer runs
\* at `now`: dispatches are ordered, and the reducer runs at most MaxLag later.
DispatchTimes ==
    { d \in (now - MaxLag)..now : d >= lastDispatchMs }

\* The session engine, the refs of the hook and what is kept of their
\* history.
sysVars == <<engine, hook, inflight, session, sessionCount, heard,
             stopRequested, notified, saved, spoken,
             stopAgain>>

vars == <<state, cooldownTracker, now, ticks, lastDispatchMs, lastAction,
          engine, hook, inflight, session, sessionCount, heard,
          stopRequested, notified, saved, spoken,
             stopAgain>>

\* What is remembered of an action: its type and, for TACTIC_DETECTED, how
\* many patterns it carried and how many of them were new to the state.
Seen(a) ==
    [type |-> a.type,
     delivered |-> IF a.type = "TACTIC_DETECTED" THEN Len(a.patterns) ELSE 0,
     added |-> IF a.type = "TACTIC_DETECTED"
               THEN Len(FilterNewPatterns(state.detectedPatterns, a.patterns))
               ELSE 0]

\* dispatch(action): the reducer runs at wall-clock time `now`.
Dispatch(a) ==
    LET r == sessionReducer(state, a, cooldownTracker, now)
    IN /\ state' = r.state
       /\ cooldownTracker' = r.tracker
       /\ lastAction' = Seen(a)

\* SessionEngine.createInitialState()
SessionEngine_createInitialState ==
    [isRecording |-> FALSE, startTime |-> 0, duration |-> 0,
     transcript |-> <<>>, detectedPatterns |-> <<>>,
     currentFocusScore |-> 100, audioLevel |-> 0]

\* No timer armed: analysisDebounceRef.current = null
NoTimer == [armed |-> FALSE, patterns |-> <<>>, focusScore |-> 0]

\* No Session object built yet.
NoSession ==
    [id |-> 0, transcript |-> <<>>, detectedPatterns |-> <<>>,
     sharesTranscript |-> FALSE, sharesPatterns |-> FALSE]

\* A freshly constructed SessionEngine under a freshly mounted hook.
\* sessionId 0 stands for null; analysisDebounceTrigger counts the pending
\* timers armed by triggerDebouncedAnalysis, the handle naming the latest;
\* `awaiting` is the await the engine's running async method is suspended
\* at; `speech` tells whether the speech service holds the engine's
\* transcription callback.
SysInit ==
    /\ engine = [sessionId |-> 0, mode |-> "sales",
                 state |-> SessionEngine_createInitialState,
                 updateCallback |-> FALSE,
                 analysisDebounceTrigger |-> 0,
                 awaiting |-> "none", speech |-> FALSE]
    /\ hook = [isLive |-> FALSE, lastDispatchedChunkId |-> NULL,
               analysisDebounce |-> NoTimer, durationInterval |-> FALSE]
    /\ inflight = {}
    /\ session = NoSession
    /\ sessionCount = 0
    /\ heard = 0
    /\ stopRequested = {}
    /\ notified = FALSE
    /\ saved = [sid \in 0..MaxSessions |-> 0]
    /\ spoken = NULL
    /\ stopAgain = [at |-> "none", calls |-> 0]

Init ==
    /\ state = createInitialState("sales")
    /\ cooldownTracker = EmptyTracker
    /\ now = StartClock
    /\ ticks = 0
    /\ lastDispatchMs = 0
    /\ lastAction = [type |-> NULL, delivered |-> 0, added |-> 0]
    /\ SysInit

\* Date.now() advances.
Tick ==
    /\ ticks < MaxTicks
    /\ \E d \in ClockSteps : now' = now + d
    /\ ticks' = ticks + 1
    /\ UNCHANGED <<state, cooldownTracker, lastDispatchMs, lastAction, sysVars>>

\* useLiveSession.startSession up to its dispatch: resetAllCooldowns(), then
\* START_SESSION with startTime = Date.now().
START_SESSION(mode) ==
    LET a == [type |-> "START_SESSION", mode |-> mode, startTime |-> now]
    IN /\ state' = sessionReducer(state, a, resetAllCooldowns, now).state
       /\ cooldownTracker' = resetAllCooldowns
       /\ lastAction' = Seen(a)
       /\ lastDispatchMs' = now
       /\ UNCHANGED <<now, ticks, sysVars>>

STOP_SESSION ==
    /\ Dispatch([type |-> "STOP_SESSION"])
    /\ UNCHANGED <<now, ticks, lastDispatchMs, sysVars>>

TRANSCRIPT_CHUNK ==
    \E chunk \in Chunks :
        /\ state.status = "RUNNING" => Len(state.transcript) < MaxTranscript
        /\ Dispatch([type |-> "TRANSCRIPT_CHUNK", chunk |-> chunk])
        /\ UNCHANGED <<now, ticks, lastDispatchMs, sysVars>>

\* TACTIC_DETECTED carrying one of the pattern lists `lists`.
TACTIC_DETECTED(lists) ==
    \E patterns \in lists, focusScore \in FocusScores,
       timestampMs \in DispatchTimes :
        /\ Dispatch([type |-> "TACTIC_DETECTED", patterns |-> patterns,
                     focusScore |-> focusScore, timestampMs |-> timestampMs])
        /\ lastDispatchMs' = timestampMs
        /\ UNCHANGED <<now, ticks, sysVars>>

UPDATE_DURATION ==
    \E duration \in Durations :
        /\ Dispatch([type |-> "UPDATE_DURATION", duration |-> duration])
        /\ UNCHANGED <<now, ticks, lastDispatchMs, sysVars>>

UPDATE_AUDIO_LEVEL ==
    \E level \in AudioLevels :
        /\ Dispatch([type |-> "UPDATE_AUDIO_LEVEL", level |-> level])
        /\ UNCHANGED <<now, ticks, lastDispatchMs, sysVars>>

SET_ERROR ==
    \E message \in ErrorMessages :
        /\ Dispatch([type |-> "SET_ERROR", message |-> message])
        /\ UNCHANGED <<now, ticks, lastDispatchMs, sysVars>>

RESET ==
    /\ Dispatch([type |-> "RESET"])
    /\ UNCHANGED <<now, ticks, lastDispatchMs, sysVars>>

\* The reducer under every SessionAction, delivered in any order.
Next ==
    \/ \E mode \in NegotiationMode : START_SESSION(mode)
    \/ STOP_SESSION
    \/ TRANSCRIPT_CHUNK
    \/ TACTIC_DETECTED(SinglePatternLists)
    \/ UPDATE_DURATION
    \/ UPDATE_AUDIO_LEVEL
    \/ SET_ERROR
    \/ RESET

Spec == Init /\ [][Next]_vars

\* One running session, started at StartClock, that has received its first
\* transcript chunk, while the wall clock advances.
InitRunning ==
    /\ state = TranscriptChunk(
                   StartSessionCase([type |-> "START_SESSION",
                                     mode |-> "sales",
                                     startTime |-> StartClock]),
                   [type |-> "TRANSCRIPT_CHUNK",
                    chunk |-> CHOOSE c \in Chunks : TRUE])
    /\ cooldownTracker = resetAllCooldowns
    /\ now = StartClock
    /\ ticks = 0
    /\ lastDispatchMs = StartClock
    /\ lastAction = [type |-> "TRANSCRIPT_CHUNK", delivered |-> 0, added |-> 0]
    /\ SysInit

NextClock ==
    \/ Tick
    \/ TACTIC_DETECTED(SinglePatternLists)

SpecClock == InitRunning /\ [][NextClock]_vars

\* Sessions that receive pattern lists of up to MaxBatch patterns.
NextMerge ==
    \/ START_SESSION("sales")
    \/ TACTIC_DETECTED(PatternLists)

SpecMerge == Init /\ [][NextMerge]_vars

\* ------------------------------------------------ the engine and the hook

\* What the speech service transcribes: "t1" is an unfinished sentence,
\* "t2." a finished one.  Both are left as they are by trim(), by the
\* removal of blank tokens and by autoCorrectTranscript.
SpokenTexts == {"t1", "t2."}

\* The same with sentences ending in "!" and in "?".
SpeechTexts == SpokenTexts \cup {"t3!", "t4?"}

\* Empty and whitespace-only texts.
BlankTexts == {"", "  "}

\* What the speech service can hand over: the texts above, one of them
\* with spaces around it, blank texts and the blank token of Whisper.
RawTexts == SpeechTexts \cup BlankTexts \cup {" t1 ", "[BLANK_AUDIO]"}

\* The text as it is given.
Untrimmed(text) == text

\* text.trim()
trim(text) ==
    IF text \in BlankTexts THEN ""
    ELSE IF text = " t1 " THEN "t1"
    ELSE text

\* rawText.replace(/\[BLANK_AUDIO\]/g, '').replace(/\[ Pause \]/gi, '').trim()
cleanedText(rawText) ==
    IF rawText = "[BLANK_AUDIO]" THEN "" ELSE trim(rawText)

\* The transcribed texts that end in ".", "!" or "?".
FinishedSentences == {"t2.", "t3!", "t4?"}

\* The texts a chunk can hold after up to n transcriptions were merged.
RECURSIVE MergedTexts(_)
MergedTexts(n) ==
    IF n <= 1 THEN SpeechTexts
    ELSE MergedTexts(n - 1) \cup
         { a \o " " \o b : a \in MergedTexts(n - 1), b \in SpeechTexts }

\* The chunk texts that end in a finished sentence.
FinishedTexts ==
    FinishedSentences \cup
    { a \o " " \o b : a \in MergedTexts(MaxHeard + MaxFragments),
                      b \in FinishedSentences }

\* /[.!?]\s*$/.test(text)
IsFinished(text) == text \in FinishedTexts

\* timeSinceLastUpdate >= 10000
PauseAtThreshold(timeSinceLastUpdate) == timeSinceLastUpdate >= 10000

\* const isLongPause = timeSinceLastUpdate > 10000
isLongPause(timeSinceLastUpdate) == timeSinceLastUpdate > 10000

\* `chunk_${timestamp}_${random}`: unique per chunk.
ChunkId(sid, k) == "chunk_" \o ToString(sid) \o "_" \o ToString(k)

\* SessionEngine.onTranscription up to triggerDebouncedAnalysis: the engine
\* state after text arrives at time t as the k-th transcription of session
\* sid.
Transcribed(es, text, t, sid, k) ==
    LET n == Len(es.transcript)
        merges == /\ n > 0
                  /\ ~IsFinished(es.transcript[n].text)
                  /\ ~isLongPause(t - es.transcript[n].timestamp)
        transcript ==
            IF merges
            THEN [es.transcript EXCEPT
                    ![n] = [@ EXCEPT !.text = @ \o " " \o text,
                                     !.timestamp = t]]
            ELSE Append(es.transcript,
                        [id |-> ChunkId(sid, k), text |-> text,
                         timestamp |-> t, hasPattern |-> FALSE])
    IN [es EXCEPT !.transcript = transcript,
                  !.duration = t - es.startTime]

\* SessionEngine.onAnalysisResult up to notifyUpdate: the engine state after
\* result is applied.
Analysed(es, result) ==
    LET newPatterns ==
            FilterNewPatterns(es.detectedPatterns, result.detectedPatterns)
    IN [es EXCEPT
          !.detectedPatterns =
              SortByConfidence(es.detectedPatterns \o newPatterns),
          !.transcript = MarkTranscript(es.transcript, newPatterns),
          !.currentFocusScore = result.focusScore]

\* chunk.hasPattern = true is written into the chunk objects themselves.  A
\* chunk of `transcript` that is one of the objects of `before` shows the
\* flag the engine wrote into it.
SharedChunks(transcript, before, after) ==
    [i \in 1..Len(transcript) |->
        IF \E j \in 1..Len(before) : before[j] = transcript[i]
        THEN after[CHOOSE j \in 1..Len(before) : before[j] = transcript[i]]
        ELSE transcript[i]]

\* The callback useLiveSession.startSession hands to the engine, run on the
\* snapshot engineState with the refs h, the reducer state s and the
\* cooldown tracker tr.
OnEngineUpdate(h, s, tr, engineState) ==
    IF ~h.isLive THEN [hook |-> h, state |-> s, tracker |-> tr]
    ELSE
      LET n == Len(engineState.transcript)
          isNew == IF n = 0 THEN FALSE
                   ELSE engineState.transcript[n].id # h.lastDispatchedChunkId
          r1 == IF isNew
                THEN sessionReducer(s, [type |-> "TRANSCRIPT_CHUNK",
                                        chunk |-> engineState.transcript[n]],
                                    tr, now)
                ELSE [state |-> s, tracker |-> tr]
          h1 == IF isNew
                THEN [h EXCEPT
                        !.lastDispatchedChunkId = engineState.transcript[n].id,
                        !.analysisDebounce =
                            [armed |-> TRUE,
                             patterns |-> engineState.detectedPatterns,
                             focusScore |-> engineState.currentFocusScore]]
                ELSE h
          r2 == sessionReducer(r1.state,
                               [type |-> "UPDATE_AUDIO_LEVEL",
                                level |-> engineState.audioLevel],
                               r1.tracker, now)
      IN [hook |-> h1, state |-> r2.state, tracker |-> r2.tracker]

\* SessionEngine.notifyUpdate() on the engine e, the reducer state being s.
notifyUpdate(e, s) ==
    LET r == IF e.updateCallback
             THEN OnEngineUpdate(hook, s, cooldownTracker, e.state)
             ELSE [hook |-> hook, state |-> s, tracker |-> cooldownTracker]
    IN /\ hook' = r.hook
       /\ state' = r.state
       /\ cooldownTracker' = r.tracker
       /\ notified' = e.updateCallback

\* clearTimeout(this.analysisDebounceTrigger): the timer the handle names
\* is cancelled if it is still pending.
clearTimeout(pending) == IF pending > 0 THEN pending - 1 ELSE 0

\* setTimeout without the clearTimeout before it.
ArmedOnTop(pending) == pending + 1

\* triggerDebouncedAnalysis: clearTimeout, then setTimeout(..., 300).
Rearmed(pending) == clearTimeout(pending) + 1

\* What is remembered of a step of the engine or the hook.
Ran(type) == [type |-> type, delivered |-> 0, added |-> 0]

\* useLiveSession.startSession up to the engine's await of
\* speechService.startRecording(): cooldowns reset, isLiveRef set,
\* START_SESSION dispatched, then SessionEngine.startSession's first half.
\* A session is started when no other call of the engine is under way.
startSession(mode) ==
        /\ sessionCount < MaxSessions
        /\ engine.awaiting = "none"
        /\ sessionCount' = sessionCount + 1
        /\ cooldownTracker' = resetAllCooldowns
        /\ hook' = [hook EXCEPT !.isLive = TRUE]
        /\ state' = sessionReducer(state,
                                   [type |-> "START_SESSION", mode |-> mode,
                                    startTime |-> now],
                                   resetAllCooldowns, now).state
        /\ engine' = [engine EXCEPT
                        !.sessionId = sessionCount + 1,
                        !.mode = mode,
                        !.updateCallback = TRUE,
                        !.state = [SessionEngine_createInitialState EXCEPT
                                     !.startTime = now,
                                     !.isRecording = TRUE],
                        !.awaiting = "startRecording"]
        /\ session' = [session EXCEPT !.sharesTranscript = FALSE,
                                      !.sharesPatterns = FALSE]
        /\ heard' = 0
        /\ spoken' = NULL
        /\ notified' = FALSE
        /\ lastAction' = Ran("startSession")
        /\ lastDispatchMs' = now
        /\ UNCHANGED <<saved, stopAgain, now, ticks, inflight, stopRequested>>

\* speechService.startRecording() resolves true: the engine notifies and
\* returns true, and the hook arms its duration interval.
startRecordingResolved ==
    /\ engine.awaiting = "startRecording"
    /\ engine' = [engine EXCEPT !.awaiting = "none", !.speech = TRUE]
    /\ LET r == IF engine.updateCallback
                THEN OnEngineUpdate(hook, state, cooldownTracker, engine.state)
                ELSE [hook |-> hook, state |-> state,
                      tracker |-> cooldownTracker]
       IN /\ hook' = [r.hook EXCEPT !.durationInterval = TRUE]
          /\ state' = r.state
          /\ cooldownTracker' = r.tracker
          /\ notified' = engine.updateCallback
    /\ lastAction' = Ran("startRecordingResolved")
    /\ UNCHANGED <<saved, spoken, stopAgain, now, ticks, lastDispatchMs, inflight, session,
                   sessionCount, heard, stopRequested>>

\* speechService.startRecording() resolves false: the engine returns false
\* as it is, and the hook clears isLiveRef and dispatches SET_ERROR.
startRecordingFailed ==
    /\ engine.awaiting = "startRecording"
    /\ engine' = [engine EXCEPT !.awaiting = "none"]
    /\ hook' = [hook EXCEPT !.isLive = FALSE]
    /\ \E message \in ErrorMessages :
           state' = sessionReducer(state, [type |-> "SET_ERROR",
                                           message |-> message],
                                   cooldownTracker, now).state
    /\ notified' = FALSE
    /\ lastAction' = Ran("startRecordingFailed")
    /\ UNCHANGED <<saved, spoken, stopAgain, cooldownTracker, now, ticks, lastDispatchMs, inflight,
                   session, sessionCount, heard, stopRequested>>

\* The speech service calls SessionEngine.onTranscription(text, Date.now())
\* with one of texts; at most limit of them are ingested in a session.  A
\* text of which nothing is left after trimming and the removal of blank
\* tokens makes the handler return at once.
onTranscription(texts, limit) ==
    \E text \in texts :
        /\ engine.speech
        /\ heard < limit
        /\ spoken' = text
        /\ IF trim(text) = "" \/ cleanedText(trim(text)) = ""
           THEN /\ notified' = FALSE
                /\ UNCHANGED <<engine, session, hook, state, cooldownTracker,
                               heard>>
           ELSE /\ heard' = heard + 1
                /\ LET es == Transcribed(engine.state,
                                         cleanedText(trim(text)), now,
                                         engine.sessionId, heard + 1)
                       e == [engine EXCEPT
                               !.state = es,
                               !.analysisDebounceTrigger = Rearmed(@)]
                   IN /\ engine' = e
                      /\ session' =
                             IF session.sharesTranscript
                             THEN [session EXCEPT !.transcript = es.transcript]
                             ELSE session
                      /\ notifyUpdate(e, state)
        /\ lastAction' = Ran("onTranscription")
        /\ UNCHANGED <<saved, stopAgain, now, ticks, lastDispatchMs, inflight,
                       sessionCount, stopRequested>>

\* The speech service calls SessionEngine.onAudioLevel(level).
onAudioLevel ==
    \E level \in AudioLevels :
        /\ engine.speech
        /\ LET e == [engine EXCEPT !.state.audioLevel = level]
           IN /\ engine' = e
              /\ notifyUpdate(e, state)
        /\ lastAction' = Ran("onAudioLevel")
        /\ UNCHANGED <<saved, spoken, stopAgain, now, ticks, lastDispatchMs, inflight, session,
                       sessionCount, heard, stopRequested>>

\* The 300 ms timer of triggerDebouncedAnalysis fires: while recording it
\* calls analyzer.analyzeSession(), whose promise is then pending.
analysisDebounceFires ==
    /\ engine.analysisDebounceTrigger > 0
    /\ engine' = [engine EXCEPT !.analysisDebounceTrigger = @ - 1]
    /\ inflight' = IF engine.state.isRecording
                   THEN inflight \cup {engine.sessionId}
                   ELSE inflight
    /\ notified' = FALSE
    /\ lastAction' = Ran("analysisDebounceFires")
    /\ UNCHANGED <<saved, spoken, stopAgain, state, cooldownTracker, now, ticks, lastDispatchMs, hook,
                   session, sessionCount, heard, stopRequested>>

\* What analyzeSession() can resolve to: no pattern, or one pattern found in
\* the text "t1" together with a lowered focus score.
AnalysisResults ==
    { [detectedPatterns |-> <<>>, focusScore |-> 100] } \cup
    { [detectedPatterns |-> <<p>>, focusScore |-> 55] :
          p \in { q \in DetectedPatterns : q.transcript = "t1" } }

\* A pending analyzeSession() promise of session sid resolves and its
\* .then() runs SessionEngine.onAnalysisResult(result).  The pushes and the
\* sort act on the array the Session object may share; detectedPatterns is
\* then replaced by a copy if a pattern was added.  The hasPattern flags are
\* written into chunk objects the reducer state and the Session may hold.
onAnalysisResult ==
    \E sid \in inflight, result \in AnalysisResults :
        LET es == Analysed(engine.state, result)
            e == [engine EXCEPT !.state = es]
            added == Len(es.detectedPatterns)
                         - Len(engine.state.detectedPatterns)
            marked == [state EXCEPT
                         !.transcript =
                             SharedChunks(@, engine.state.transcript,
                                          es.transcript)]
        IN /\ inflight' = inflight \ {sid}
           /\ engine' = e
           /\ session' =
                  [session EXCEPT
                     !.detectedPatterns =
                         IF session.sharesPatterns
                         THEN es.detectedPatterns ELSE @,
                     !.sharesPatterns = @ /\ added = 0,
                     !.transcript =
                         IF session.sharesTranscript
                         THEN es.transcript ELSE @]
           /\ notifyUpdate(e, marked)
           /\ lastAction' = [type |-> "onAnalysisResult",
                             delivered |-> Len(result.detectedPatterns),
                             added |-> added]
           /\ UNCHANGED <<saved, spoken, stopAgain, now, ticks, lastDispatchMs, sessionCount, heard,
                          stopRequested>>

\* safeDispatch(action) with the refs h.
safeDispatch(h, s, a, tr) ==
    IF ~h.isLive /\ a.type # "RESET"
    THEN [state |-> s, tracker |-> tr]
    ELSE sessionReducer(s, a, tr, now)

\* The 250 ms timer of the hook fires on the snapshot it captured.
analysisDebounceRefFires ==
    /\ hook.analysisDebounce.armed
    /\ hook' = [hook EXCEPT !.analysisDebounce = NoTimer]
    /\ LET t == hook.analysisDebounce
           r == IF hook.isLive /\ Len(t.patterns) > 0
                THEN safeDispatch(hook, state,
                                  [type |-> "TACTIC_DETECTED",
                                   patterns |-> t.patterns,
                                   focusScore |-> t.focusScore,
                                   timestampMs |-> now],
                                  cooldownTracker)
                ELSE [state |-> state, tracker |-> cooldownTracker]
       IN /\ state' = r.state
          /\ cooldownTracker' = r.tracker
    /\ notified' = FALSE
    /\ lastDispatchMs' = now
    /\ lastAction' = Ran("analysisDebounceRefFires")
    /\ UNCHANGED <<saved, spoken, stopAgain, now, ticks, engine, inflight, session, sessionCount,
                   heard, stopRequested>>

\* The interval callback without its second dispatch: engine.updateDuration()
\* and UPDATE_DURATION only.
durationIntervalUpdatesDuration ==
    /\ hook.durationInterval
    /\ hook.isLive
    /\ \E es \in {IF engine.state.isRecording
                   THEN [engine.state EXCEPT
                           !.duration = now - engine.state.startTime]
                   ELSE engine.state} :
       \E r0 \in {IF engine.state.isRecording /\ engine.updateCallback
                   THEN OnEngineUpdate(hook, state, cooldownTracker, es)
                   ELSE [hook |-> hook, state |-> state,
                         tracker |-> cooldownTracker]} :
       \E r1 \in {safeDispatch(r0.hook, r0.state,
                                [type |-> "UPDATE_DURATION",
                                 duration |-> es.duration], r0.tracker)} :
          /\ engine' = [engine EXCEPT !.state = es]
          /\ hook' = r0.hook
          /\ state' = r1.state
          /\ cooldownTracker' = r1.tracker
          /\ notified' = (engine.state.isRecording /\ engine.updateCallback)
    /\ lastDispatchMs' = now
    /\ lastAction' = Ran("durationIntervalFires")
    /\ UNCHANGED <<saved, spoken, stopAgain, now, ticks, inflight, session, sessionCount, heard,
                   stopRequested>>

\* The 1000 ms interval of the hook fires: engine.updateDuration(), then
\* UPDATE_DURATION and, if the engine holds patterns, TACTIC_DETECTED.
durationIntervalFires ==
    /\ hook.durationInterval
    /\ hook.isLive
    /\ \E es \in {IF engine.state.isRecording
                   THEN [engine.state EXCEPT
                           !.duration = now - engine.state.startTime]
                   ELSE engine.state} :
       \E r0 \in {IF engine.state.isRecording /\ engine.updateCallback
                   THEN OnEngineUpdate(hook, state, cooldownTracker, es)
                   ELSE [hook |-> hook, state |-> state,
                         tracker |-> cooldownTracker]} :
       \E r1 \in {safeDispatch(r0.hook, r0.state,
                                [type |-> "UPDATE_DURATION",
                                 duration |-> es.duration], r0.tracker)} :
       \E r2 \in {IF Len(es.detectedPatterns) > 0
                   THEN safeDispatch(r0.hook, r1.state,
                                     [type |-> "TACTIC_DETECTED",
                                      patterns |-> es.detectedPatterns,
                                      focusScore |-> es.currentFocusScore,
                                      timestampMs |-> now], r1.tracker)
                   ELSE r1} :
          /\ engine' = [engine EXCEPT !.state = es]
          /\ hook' = r0.hook
          /\ state' = r2.state
          /\ cooldownTracker' = r2.tracker
          /\ notified' = (engine.state.isRecording /\ engine.updateCallback)
    /\ lastDispatchMs' = now
    /\ lastAction' = Ran("durationIntervalFires")
    /\ UNCHANGED <<saved, spoken, stopAgain, now, ticks, inflight, session, sessionCount, heard,
                   stopRequested>>

\* The refs after stopSession/cancelSession have cleared them.
Halted(h) ==
    [h EXCEPT !.isLive = FALSE, !.durationInterval = FALSE,
              !.analysisDebounce = NoTimer]

\* useLiveSession.stopSession up to its await: isLiveRef cleared, timers
\* cleared, STOP_SESSION dispatched, then SessionEngine.stopSession up to
\* its await of speechService.stopRecording().  Without a session id the
\* engine returns null and the hook dispatches RESET.
stopSession ==
    /\ engine.awaiting = "none"
    /\ hook' = Halted(hook)
    /\ LET stopped == sessionReducer(state, [type |-> "STOP_SESSION"],
                                     cooldownTracker, now).state
       IN IF engine.sessionId = 0
          THEN /\ state' = sessionReducer(stopped, [type |-> "RESET"],
                                          cooldownTracker, now).state
               /\ UNCHANGED <<engine, stopRequested>>
          ELSE /\ state' = stopped
               /\ engine' = [engine EXCEPT
                               !.analysisDebounceTrigger = clearTimeout(@),
                               !.awaiting = "stopRecording"]
               /\ stopRequested' = stopRequested \cup {engine.sessionId}
    /\ notified' = FALSE
    /\ lastAction' = Ran("stopSession")
    /\ UNCHANGED <<saved, spoken, stopAgain, cooldownTracker, now, ticks, lastDispatchMs, inflight,
                   session, sessionCount, heard>>

\* LocalStorageService.saveSession(session) is called with the Session
\* whose id is sid.
saveSession(sv, sid) == [sv EXCEPT ![sid] = @ + 1]

\* speechService.stopRecording() resolves: the engine clears isRecording,
\* builds the Session object from the arrays of its state and awaits
\* LocalStorageService.saveSession(session).
stopRecordingResolved ==
    /\ engine.awaiting = "stopRecording"
    /\ engine' = [engine EXCEPT
                    !.state = [@ EXCEPT !.isRecording = FALSE,
                                        !.duration = now - engine.state.startTime],
                    !.speech = FALSE,
                    !.awaiting = "saveSession"]
    /\ session' = [id |-> engine.sessionId,
                   transcript |-> engine.state.transcript,
                   detectedPatterns |-> engine.state.detectedPatterns,
                   sharesTranscript |-> TRUE, sharesPatterns |-> TRUE]
    /\ saved' = saveSession(saved, engine.sessionId)
    /\ notified' = FALSE
    /\ lastAction' = Ran("stopRecordingResolved")
    /\ UNCHANGED <<spoken, stopAgain, state, cooldownTracker, now, ticks, lastDispatchMs, hook,
                   inflight, sessionCount, heard, stopRequested>>

\* saveSession() and calculateStats() resolve: the engine drops its session
\* id and its callback and returns the Session; the hook dispatches RESET.
saveSessionResolved ==
    /\ engine.awaiting = "saveSession"
    /\ engine' = [engine EXCEPT !.sessionId = 0, !.updateCallback = FALSE,
                                !.awaiting = "none"]
    /\ state' = sessionReducer(state, [type |-> "RESET"],
                               cooldownTracker, now).state
    /\ notified' = FALSE
    /\ lastAction' = Ran("saveSessionResolved")
    /\ UNCHANGED <<saved, spoken, stopAgain, cooldownTracker, now, ticks, lastDispatchMs, hook,
                   inflight, session, sessionCount, heard, stopRequested>>

\* useLiveSession.cancelSession up to its await, then
\* SessionEngine.cancelSession up to its await of
\* speechService.cancelRecording().
cancelSession ==
    /\ engine.awaiting = "none"
    /\ hook' = Halted(hook)
    /\ engine' = [engine EXCEPT !.analysisDebounceTrigger = clearTimeout(@),
                                !.awaiting = "cancelRecording"]
    /\ stopRequested' = IF engine.sessionId = 0 THEN stopRequested
                        ELSE stopRequested \cup {engine.sessionId}
    /\ notified' = FALSE
    /\ lastAction' = Ran("cancelSession")
    /\ UNCHANGED <<saved, spoken, stopAgain, state, cooldownTracker, now, ticks, lastDispatchMs,
                   inflight, session, sessionCount, heard>>

\* speechService.cancelRecording() resolves: the engine replaces its state
\* by a fresh one and drops its session id and its callback; the hook
\* dispatches RESET.
cancelRecordingResolved ==
    /\ engine.awaiting = "cancelRecording"
    /\ engine' = [engine EXCEPT !.state = SessionEngine_createInitialState,
                                !.sessionId = 0,
                                !.updateCallback = FALSE,
                                !.speech = FALSE,
                                !.awaiting = "none"]
    /\ session' = [session EXCEPT !.sharesTranscript = FALSE,
                                  !.sharesPatterns = FALSE]
    /\ state' = sessionReducer(state, [type |-> "RESET"],
                               cooldownTracker, now).state
    /\ notified' = FALSE
    /\ lastAction' = Ran("cancelRecordingResolved")
    /\ UNCHANGED <<saved, spoken, stopAgain, cooldownTracker, now, ticks, lastDispatchMs, hook,
                   inflight, sessionCount, heard, stopRequested>>

\* useLiveSession.stopSession is called again while an earlier call is
\* suspended in SessionEngine.stopSession: the refs are cleared and
\* STOP_SESSION dispatched once more, and the engine, whose sessionId is
\* still set, runs up to its await of speechService.stopRecording().
stopSessionAgain ==
    /\ engine.awaiting \in {"stopRecording", "saveSession"}
    /\ stopAgain.at = "none"
    /\ stopAgain.calls < MaxStopAgain
    /\ stopAgain' = [at |-> "stopRecording", calls |-> stopAgain.calls + 1]
    /\ hook' = Halted(hook)
    /\ state' = sessionReducer(state, [type |-> "STOP_SESSION"],
                               cooldownTracker, now).state
    /\ engine' = [engine EXCEPT !.analysisDebounceTrigger = clearTimeout(@)]
    /\ stopRequested' = stopRequested \cup {engine.sessionId}
    /\ notified' = FALSE
    /\ lastAction' = Ran("stopSessionAgain")
    /\ UNCHANGED <<spoken, cooldownTracker, now, ticks, lastDispatchMs, inflight,
                   session, sessionCount, heard, saved>>

\* speechService.stopRecording() resolves for the later call: it builds a
\* Session of its own from this.sessionId and the state, and awaits
\* LocalStorageService.saveSession(session).
stopAgainRecordingResolved ==
    /\ stopAgain.at = "stopRecording"
    /\ stopAgain' = [stopAgain EXCEPT !.at = "saveSession"]
    /\ engine' = [engine EXCEPT
                    !.state = [@ EXCEPT !.isRecording = FALSE,
                                        !.duration = now - engine.state.startTime]]
    /\ session' = [id |-> engine.sessionId,
                   transcript |-> engine.state.transcript,
                   detectedPatterns |-> engine.state.detectedPatterns,
                   sharesTranscript |-> TRUE, sharesPatterns |-> TRUE]
    /\ saved' = saveSession(saved, engine.sessionId)
    /\ notified' = FALSE
    /\ lastAction' = Ran("stopAgainRecordingResolved")
    /\ UNCHANGED <<spoken, state, cooldownTracker, now, ticks, lastDispatchMs, hook,
                   inflight, sessionCount, heard, stopRequested>>

\* saveSession() and calculateStats() resolve for the later call: the
\* engine drops its session id and its callback, the hook dispatches RESET.
stopAgainSaveResolved ==
    /\ stopAgain.at = "saveSession"
    /\ stopAgain' = [stopAgain EXCEPT !.at = "none"]
    /\ engine' = [engine EXCEPT !.sessionId = 0, !.updateCallback = FALSE]
    /\ state' = sessionReducer(state, [type |-> "RESET"],
                               cooldownTracker, now).state
    /\ notified' = FALSE
    /\ lastAction' = Ran("stopAgainSaveResolved")
    /\ UNCHANGED <<spoken, cooldownTracker, now, ticks, lastDispatchMs, hook,
                   inflight, session, sessionCount, heard, stopRequested,
                   saved>>

\* The hook and the engine driving the reducer.
NextSys ==
    \/ startSession("sales")
    \/ startRecordingResolved
    \/ startRecordingFailed
    \/ onTranscription(SpokenTexts, MaxHeard)
    \/ onAudioLevel
    \/ analysisDebounceFires
    \/ onAnalysisResult
    \/ analysisDebounceRefFires
    \/ durationIntervalFires
    \/ stopSession
    \/ stopRecordingResolved
    \/ saveSessionResolved
    \/ cancelSession
    \/ cancelRecordingResolved

SpecSys == Init /\ [][NextSys]_vars

\* Sessions started, stopped and cancelled, with stopSession called again
\* while a stop is under way.
NextStop ==
    \/ startSession("sales")
    \/ startRecordingResolved
    \/ onTranscription(SpokenTexts, MaxHeard)
    \/ stopSession
    \/ stopRecordingResolved
    \/ saveSessionResolved
    \/ cancelSession
    \/ cancelRecordingResolved
    \/ stopSessionAgain
    \/ stopAgainRecordingResolved
    \/ stopAgainSaveResolved

SpecStop == Init /\ [][NextStop]_vars

\* The gaps between two transcriptions, around the long-pause threshold.
PauseSteps == {10000, 10001}

\* Nothing is transcribed for a while: Date.now() advances.
Pause ==
    /\ ticks < MaxPauses
    /\ \E d \in PauseSteps : now' = now + d
    /\ ticks' = ticks + 1
    /\ UNCHANGED <<state, cooldownTracker, lastDispatchMs, lastAction, sysVars>>

\* Recording sessions in which fragments arrive with and without pauses.
NextSpeech ==
    \/ startSession("sales")
    \/ startRecordingResolved
    \/ Pause
    \/ onTranscription(RawTexts, MaxFragments)

SpecSpeech == Init /\ [][NextSpeech]_vars

\* ================================================================== claims

\* The top pattern the reducer saw in a running TACTIC_DETECTED step: it
\* stores allPatterns, whose first entry it takes as topPattern.
TopAfter == state'.detectedPatterns[1]

\* The fields the accept path alone may write.
TacticFields(s) ==
    <<s.tactic, s.confidence, s.suggestions, s.activeStrategy,
      s.lastTacticAtMs>>

\* C1: once STOP_SESSION has been applied, a TRANSCRIPT_CHUNK or a
\* TACTIC_DETECTED action leaves every field of the state as it was,
\* status ENDED included.
C1_LateEventSafety ==
    [][ ( /\ state.status = "ENDED"
          /\ lastAction'.type \in {"TRANSCRIPT_CHUNK", "TACTIC_DETECTED"} )
        => state' = state ]_vars

\* An ended session that holds a strategy has just been handed a
\* TACTIC_DETECTED carrying a pattern it does not hold.
C1_Witness ==
    /\ state.status = "ENDED"
    /\ state.activeStrategy # NullStrategy
    /\ lastAction.type = "TACTIC_DETECTED"
    /\ lastAction.added > 0

\* C2 as claimed: while status is not RUNNING, none of TRANSCRIPT_CHUNK,
\* TACTIC_DETECTED, UPDATE_DURATION, UPDATE_AUDIO_LEVEL and SET_ERROR changes
\* the state.
C2_NoMutationUnlessRunning ==
    [][ ( /\ state.status # "RUNNING"
          /\ lastAction'.type \in
                {"TRANSCRIPT_CHUNK", "TACTIC_DETECTED", "UPDATE_DURATION",
                 "UPDATE_AUDIO_LEVEL", "SET_ERROR"} )
        => state' = state ]_vars

\* C2 as amended: while status is IDLE or ENDED, TRANSCRIPT_CHUNK and
\* TACTIC_DETECTED leave the state as it was; UPDATE_DURATION,
\* UPDATE_AUDIO_LEVEL and SET_ERROR are applied whatever the status and write
\* duration, audioLevel and error respectively, and nothing else.
C2_GuardedUnlessRunning ==
    [][ state.status # "RUNNING" =>
          /\ lastAction'.type \in {"TRANSCRIPT_CHUNK", "TACTIC_DETECTED"}
                => state' = state
          /\ lastAction'.type = "UPDATE_DURATION"
                => /\ state'.duration \in Durations
                   /\ state' = [state EXCEPT !.duration = state'.duration]
          /\ lastAction'.type = "UPDATE_AUDIO_LEVEL"
                => /\ state'.audioLevel \in AudioLevels
                   /\ state' = [state EXCEPT !.audioLevel = state'.audioLevel]
          /\ lastAction'.type = "SET_ERROR"
                => /\ state'.error \in ErrorMessages
                   /\ state' = [state EXCEPT !.error = state'.error] ]_vars

\* An ended session that holds patterns has just recorded an error.
C2_Witness ==
    /\ state.status = "ENDED"
    /\ state.detectedPatterns # <<>>
    /\ lastAction.type = "SET_ERROR"
    /\ state.error # NULL

\* C3 as claimed: status changes only IDLE -> RUNNING by START_SESSION,
\* RUNNING -> ENDED by STOP_SESSION, and back to IDLE by RESET.
C3_MonotonicStatus ==
    [][ state'.status # state.status =>
          \/ /\ state.status = "IDLE"
             /\ state'.status = "RUNNING"
             /\ lastAction'.type = "START_SESSION"
          \/ /\ state.status = "RUNNING"
             /\ state'.status = "ENDED"
             /\ lastAction'.type = "STOP_SESSION"
          \/ /\ state'.status = "IDLE"
             /\ lastAction'.type = "RESET" ]_vars

\* ---------------------------------------------------------------- SpecClock

\* A running TACTIC_DETECTED step whose merged list is not empty.
RunningDetection ==
    /\ lastAction'.type = "TACTIC_DETECTED"
    /\ state.status = "RUNNING"
    /\ state'.detectedPatterns # <<>>

\* Tactic T = state.tactic was accepted at lastTacticAtMs with confidence
\* >= 70 and a strategy for it is active, and the step delivers T on top.
SameTacticAgain ==
    /\ RunningDetection
    /\ state.tactic # NULL
    /\ state.confidence >= CONFIDENCE_THRESHOLD
    /\ state.activeStrategy.tactic = state.tactic
    /\ TopAfter.pattern = state.tactic

\* C5: with tactic T accepted at t with confidence >= 70, a TACTIC_DETECTED
\* whose top pattern is T and whose timestamp lies in [t, t+8000) leaves
\* activeStrategy unchanged, and one with confidence >= 70 and timestamp
\* t+8001 replaces activeStrategy by a newly generated strategy for T.
C5_Cooldown ==
    [][ SameTacticAgain =>
          /\ ( lastDispatchMs' - state.lastTacticAtMs \in
                   0..(TACTIC_COOLDOWN_MS - 1)
               => state'.activeStrategy = state.activeStrategy )
          /\ ( ( /\ TopAfter.confidenceScore >= CONFIDENCE_THRESHOLD
                 /\ lastDispatchMs' =
                        state.lastTacticAtMs + TACTIC_COOLDOWN_MS + 1 )
               => /\ state'.activeStrategy # state.activeStrategy
                  /\ state'.activeStrategy.tactic = state.tactic ) ]_vars

\* The half of C5 that the reducer's Guard 3 alone decides.
C5_WithinCooldown ==
    [][ ( /\ SameTacticAgain
          /\ lastDispatchMs' - state.lastTacticAtMs \in
                 0..(TACTIC_COOLDOWN_MS - 1) )
        => state'.activeStrategy = state.activeStrategy ]_vars

\* C6: the reducer is a function of (state, action) alone: applying a
\* TACTIC_DETECTED action twice to the same state gives equal states, and
\* applying it leaves the cooldown tracker as it was.
C6_PureReducer ==
    \A patterns \in SinglePatternLists, focusScore \in FocusScores,
       timestampMs \in DispatchTimes :
        LET a == [type |-> "TACTIC_DETECTED", patterns |-> patterns,
                  focusScore |-> focusScore, timestampMs |-> timestampMs]
            first == sessionReducer(state, a, cooldownTracker, now)
            second == sessionReducer(state, a, first.tracker, now)
        IN /\ second.state = first.state
           /\ first.tracker = cooldownTracker

\* The transcript after differs from the transcript before in hasPattern
\* flags only.
OnlyFlagsChanged(before, after) ==
    /\ Len(after) = Len(before)
    /\ \A i \in 1..Len(before) :
           after[i] = [before[i] EXCEPT !.hasPattern = after[i].hasPattern]

\* The step delivers a top pattern that fails Guard 2 or Guard 3.
FailsGate ==
    /\ RunningDetection
    /\ \/ TopAfter.confidenceScore < CONFIDENCE_THRESHOLD
       \/ /\ TopAfter.pattern = state.tactic
          /\ lastDispatchMs' - state.lastTacticAtMs < TACTIC_COOLDOWN_MS

NoStrategyReturned ==
    /\ RunningDetection
    /\ TopAfter.confidenceScore >= CONFIDENCE_THRESHOLD
    /\ ~OnReducerCooldown(state, TopAfter, lastDispatchMs')
    /\ generateCounterStrategies(TopAfter.pattern, TopAfter.confidenceScore,
                                 TACTIC_COOLDOWN_MS, CONFIDENCE_THRESHOLD,
                                 cooldownTracker, now).strategy = NullStrategy

\* C10: when a TACTIC_DETECTED passes both gates and the catalog returns no
\* strategy, tactic, confidence, suggestions, activeStrategy and
\* lastTacticAtMs are left unchanged.
C10_NoStrategyNoUpdate ==
    [][ NoStrategyReturned => TacticFields(state') = TacticFields(state) ]_vars

\* ---------------------------------------------------------------- SpecMerge

\* C7: in a running state, a TACTIC_DETECTED whose patterns all have ids
\* already present in detectedPatterns leaves the length and the set of ids
\* of detectedPatterns unchanged, however often it is delivered again.
C7_IdempotentDelivery ==
    \A patterns \in PatternLists, focusScore \in FocusScores :
        ( /\ state.status = "RUNNING"
          /\ PatternIds(patterns) \subseteq PatternIds(state.detectedPatterns) )
        => LET a == [type |-> "TACTIC_DETECTED", patterns |-> patterns,
                     focusScore |-> focusScore, timestampMs |-> now]
               after == sessionReducer(state, a, cooldownTracker, now).state
           IN /\ Len(after.detectedPatterns) = Len(state.detectedPatterns)
              /\ PatternIds(after.detectedPatterns) =
                     PatternIds(state.detectedPatterns)

\* A running session has just been delivered MaxBatch patterns again, all of
\* them already present.
C7_Witness ==
    /\ state.status = "RUNNING"
    /\ lastAction.type = "TACTIC_DETECTED"
    /\ lastAction.delivered = MaxBatch
    /\ lastAction.added = 0
    /\ Len(state.detectedPatterns) >= 2

\* C8: detectedPatterns is sorted by confidenceScore, highest first, in
\* every reachable state.
C8_SortedByConfidence ==
    \A i \in 1..(Len(state.detectedPatterns) - 1) :
        state.detectedPatterns[i].confidenceScore >=
            state.detectedPatterns[i + 1].confidenceScore

\* A delivery has put a new pattern in front of patterns already stored.
C8_Witness ==
    /\ lastAction.type = "TACTIC_DETECTED"
    /\ lastAction.added >= 1
    /\ Len(state.detectedPatterns) >= 3
    /\ state.detectedPatterns[1].confidenceScore >
           state.detectedPatterns[Len(state.detectedPatterns)].confidenceScore
    /\ state.detectedPatterns[1].id = "strength_signal_4"

\* ------------------------------------------------------------------ SpecSys

\* The step runs onAnalysisResult for an analysis of a session whose
\* stopSession or cancelSession had already been invoked.
LateResult ==
    /\ lastAction'.type = "onAnalysisResult"
    /\ (inflight \ inflight') \subseteq stopRequested

\* C4: an analysis that resolves after stopSession or cancelSession was
\* invoked is dropped: it changes neither the engine's session state
\* (detectedPatterns, focus score, hasPattern flags), nor the Session object
\* that is saved, nor the reducer's state, and it invokes no update callback.
C4_LateResultDropped ==
    [][ LateResult =>
          /\ engine'.state = engine.state
          /\ session' = session
          /\ state' = state
          /\ ~notified' ]_vars

\* The part of C4 about the engine's session state alone.
C4_EngineStateKept ==
    [][ LateResult => engine'.state = engine.state ]_vars

\* The part of C4 about the Session object alone.
C4_SessionKept ==
    [][ LateResult => session' = session ]_vars

\* The part of C4 about notifications alone.
C4_NoNotification ==
    [][ LateResult => ~notified' ]_vars

\* The part of C4 about the reducer's state alone.
C4_ReducerStateKept ==
    [][ LateResult => state' = state ]_vars

\* What the isLiveRef check of the callback does guarantee: a late result
\* leaves the refs of the hook and the cooldown tracker as they were, and
\* the reducer's state keeps every field but the hasPattern flags of the
\* chunk objects it shares with the engine.
C4_NoLateDispatch ==
    [][ LateResult =>
          /\ hook' = hook
          /\ cooldownTracker' = cooldownTracker
          /\ OnlyFlagsChanged(state.transcript, state'.transcript)
          /\ state' = [state EXCEPT !.transcript = state'.transcript] ]_vars

\* --------------------------------------------------------------------- Spec

\* C11: activeStrategy, once non-null, stays non-null and unchanged across
\* every event except START_SESSION, RESET and a TACTIC_DETECTED accepted in
\* a running session, which replaces it by a strategy for the top pattern.
C11_StrategyPersists ==
    [][ ( /\ state.activeStrategy # NullStrategy
          /\ lastAction'.type \notin {"START_SESSION", "RESET"} )
        => /\ state'.activeStrategy # NullStrategy
           /\ ( state'.activeStrategy # state.activeStrategy
                => /\ lastAction'.type = "TACTIC_DETECTED"
                   /\ state.status = "RUNNING"
                   /\ TopAfter.confidenceScore >= CONFIDENCE_THRESHOLD
                   /\ state'.activeStrategy.tactic = TopAfter.pattern
                   /\ state'.tactic = TopAfter.pattern ) ]_vars

\* A strategy is active for a tactic other than the current one: a later
\* accepted detection, for which the catalog returned nothing, kept it.
C11_Witness ==
    /\ state.activeStrategy # NullStrategy
    /\ state.tactic # state.activeStrategy.tactic
    /\ lastAction.type = "TACTIC_DETECTED"
    /\ lastAction.added = 1

\* C12: activeStrategy is replaced only by a TACTIC_DETECTED that carries at
\* least one pattern id not yet in detectedPatterns; delivering the
\* unchanged pattern list again never produces a new strategy.
C12_OnlyNewDetections ==
    [][ state'.activeStrategy # state.activeStrategy
        => /\ lastAction'.type = "TACTIC_DETECTED"
           /\ lastAction'.added >= 1 ]_vars

\* stopSession or cancelSession has been invoked on the session started
\* last, and startSession has not been invoked since.
Stopped == sessionCount >= 1 /\ sessionCount \in stopRequested

\* What TRANSCRIPT_CHUNK, TACTIC_DETECTED, UPDATE_DURATION and
\* UPDATE_AUDIO_LEVEL write in a running session.
EventFields(s) ==
    <<Len(s.transcript), s.detectedPatterns, s.focusScore, s.duration,
      s.audioLevel, TacticFields(s)>>

\* Between a stop and the next start the hook holds no timer, delivers
\* nothing (isLiveRef is false) and the reducer keeps what events write.
C13_HookHalted ==
    [][ /\ Stopped' => /\ ~hook'.isLive
                       /\ ~hook'.durationInterval
                       /\ ~hook'.analysisDebounce.armed
        /\ ( /\ Stopped
             /\ Stopped'
             /\ EventFields(state') # EventFields(state) )
           => /\ lastAction'.type \in {"saveSessionResolved",
                                       "cancelRecordingResolved",
                                       "stopSession"}
              /\ state' = createInitialState(state.mode) ]_vars

\* C13: from the invocation of stopSession or cancelSession until the next
\* startSession no timer is armed, in the hook or in the engine, and no
\* event reaches the reducer, transcription callbacks that arrive while
\* the stop awaits the speech service included.
C13_Cancellation ==
    [][ /\ Stopped' => engine'.analysisDebounceTrigger = 0
        /\ Stopped' => /\ ~hook'.isLive
                       /\ ~hook'.durationInterval
                       /\ ~hook'.analysisDebounce.armed
        /\ ( /\ Stopped
             /\ Stopped'
             /\ EventFields(state') # EventFields(state) )
           => /\ lastAction'.type \in {"saveSessionResolved",
                                       "cancelRecordingResolved",
                                       "stopSession"}
              /\ state' = createInitialState(state.mode) ]_vars

\* C14: at most one debounce timer of the engine is pending; every
\* ingested chunk leaves exactly one pending and starts no classification
\* pass; a pass starts only when the timer fires, and the firing leaves
\* none pending, so a burst of chunks ends in one pass after its last chunk.
C14_SingleDebounce ==
    [][ /\ engine'.analysisDebounceTrigger <= 1
        /\ lastAction'.type = "onTranscription"
           => /\ engine'.analysisDebounceTrigger = 1
              /\ inflight' = inflight
        /\ inflight' \ inflight # {}
           => /\ lastAction'.type = "analysisDebounceFires"
              /\ engine.analysisDebounceTrigger = 1
              /\ engine'.analysisDebounceTrigger = 0
              /\ inflight' = inflight \cup {engine.sessionId} ]_vars

\* The second chunk of a burst has arrived before the timer armed by the
\* first fired: one timer is pending and no pass has started.
C14_Witness ==
    /\ lastAction.type = "onTranscription"
    /\ heard = 2
    /\ Len(engine.state.transcript) = 2
    /\ inflight = {}
    /\ engine.analysisDebounceTrigger = 1
    /\ engine.state.isRecording
    /\ engine.awaiting = "none"

\* An analyzeSession() promise started in an earlier session, stopped or
\* cancelled since, resolves while a later session of the same engine is
\* current.
CrossSessionResult ==
    /\ lastAction'.type = "onAnalysisResult"
    /\ engine.sessionId # 0
    /\ engine.sessionId \notin stopRequested
    /\ \E sid \in inflight \ inflight' :
           sid < engine.sessionId /\ sid \in stopRequested

\* C15: an analysis result that originated in session N leaves the engine
\* state and the reducer state of a session started later as they were.
C15_SessionIsolation ==
    [][ CrossSessionResult
        => /\ engine'.state = engine.state
           /\ state' = state ]_vars

\* START_SESSION has just been applied: the state is the fresh one, running,
\* and the hook has emptied the cooldown tracker.
FreshStart ==
    lastAction'.type = "START_SESSION"
    => /\ state' = [createInitialState(state'.mode) EXCEPT
                      !.status = "RUNNING", !.startTime = now]
       /\ state'.transcript = <<>>
       /\ state'.detectedPatterns = <<>>
       /\ state'.tactic = NULL
       /\ state'.activeStrategy = NullStrategy
       /\ state'.lastTacticAtMs = 0
       /\ state'.focusScore = 100
       /\ cooldownTracker' = EmptyTracker

\* The first detection of a running session that reaches the threshold:
\* nothing has been accepted since START_SESSION.
FirstDetection ==
    /\ lastAction'.type = "TACTIC_DETECTED"
    /\ state.status = "RUNNING"
    /\ state.lastTacticAtMs = 0
    /\ state'.detectedPatterns # <<>>
    /\ TopAfter.confidenceScore >= CONFIDENCE_THRESHOLD

C16_FreshSessionInCatalog ==
    [][ /\ FreshStart
        /\ ( FirstDetection /\ TopAfter.pattern \in DOMAIN COUNTER_STRATEGY_MAP )
           => /\ state'.activeStrategy # NullStrategy
              /\ state'.activeStrategy.tactic = TopAfter.pattern ]_vars

\* C17: when speechService.startRecording() fails, startSession records an
\* error and the session is not left active: the reducer is not RUNNING,
\* the engine is not recording and no timer is armed.
C17_StartFailure ==
    [][ lastAction'.type = "startRecordingFailed"
        => /\ state'.error # NULL
           /\ ~hook'.isLive
           /\ state'.status # "RUNNING"
           /\ ~engine'.state.isRecording
           /\ ~hook'.durationInterval
           /\ ~hook'.analysisDebounce.armed
           /\ engine'.analysisDebounceTrigger = 0 ]_vars

\* What does hold after the failure: the error is recorded and isLiveRef
\* is false, so nothing more is delivered.
C17_ErrorRecorded ==
    [][ lastAction'.type = "startRecordingFailed"
        => /\ state'.error # NULL
           /\ ~hook'.isLive ]_vars

\* C18: the Session of a started session is handed to saveSession at most
\* once, a Session without an id never; when a stop completes its session
\* has been saved exactly once; cancelSession saves nothing.
C18_SavedOnce ==
    [][ /\ \A sid \in 1..MaxSessions : saved'[sid] <= 1
        /\ saved'[0] = 0
        /\ lastAction'.type = "saveSessionResolved"
           => saved'[engine.sessionId] = 1
        /\ lastAction'.type \in {"cancelSession", "cancelRecordingResolved"}
           => saved' = saved ]_vars

\* Without a second stopSession call the same holds.
C18_SavedOnceSingleStop ==
    [][ stopAgain'.calls = 0
        => /\ \A sid \in 1..MaxSessions : saved'[sid] <= 1
           /\ saved'[0] = 0
           /\ lastAction'.type = "saveSessionResolved"
              => saved'[engine.sessionId] = 1
           /\ lastAction'.type \in {"cancelSession", "cancelRecordingResolved"}
              => saved' = saved ]_vars

\* The ids and texts of a transcript, in order.
ChunkTexts(transcript) ==
    [i \in 1..Len(transcript) |->
        [id |-> transcript[i].id, text |-> transcript[i].text]]

\* A fragment is ingested while the session is live and running.
Ingested ==
    /\ lastAction'.type = "onTranscription"
    /\ hook.isLive
    /\ engine.updateCallback
    /\ state.status = "RUNNING"
    /\ ChunkTexts(state.transcript) = ChunkTexts(engine.state.transcript)

\* C19: after a fragment is ingested in a running session the reducer's
\* transcript has the chunks of the engine's transcript, same ids, same
\* texts, same order, whether the fragment was appended or merged.
C19_TranscriptReflected ==
    [][ Ingested
        => ChunkTexts(state'.transcript)
               = ChunkTexts(engine'.state.transcript) ]_vars

\* The same for fragments the engine appends as a new chunk.
C19_AppendedReflected ==
    [][ ( /\ Ingested
          /\ Len(engine'.state.transcript) > Len(engine.state.transcript) )
        => ChunkTexts(state'.transcript)
               = ChunkTexts(engine'.state.transcript) ]_vars

\* The latest chunk before a fragment is ingested takes the fragment in: it
\* exists, its text is an unfinished sentence and the fragment comes at
\* most 10000 ms after it.
TakesFragment ==
    LET old == engine.state.transcript
    IN /\ Len(old) > 0
       /\ old[Len(old)].text \notin FinishedTexts
       /\ now - old[Len(old)].timestamp <= 10000

\* The transcript after text was merged into its latest chunk.
MergedInto(old, text) ==
    [old EXCEPT ![Len(old)] = [@ EXCEPT !.text = @ \o " " \o text,
                                        !.timestamp = now]]

\* C20: a fragment is merged into the latest chunk, text concatenated and
\* id kept, if and only if a latest chunk exists, does not end in . ! or ?
\* and is at most 10000 ms older than the fragment; otherwise it becomes a
\* new chunk.  The transcript never gets shorter and no chunk but the
\* latest is modified.
C20_SentenceMerge ==
    [][ lastAction'.type = "onTranscription" /\ heard' = heard + 1
        => LET old == engine.state.transcript
               new == engine'.state.transcript
           IN /\ \E text \in SpeechTexts :
                    IF TakesFragment
                    THEN new = MergedInto(old, text)
                    ELSE /\ Len(new) = Len(old) + 1
                         /\ new[Len(new)].text = text
                         /\ new[Len(new)].timestamp = now
                         /\ \A i \in 1..Len(old) : /\ new[i] = old[i]
                                                   /\ new[i].id # new[Len(new)].id
              /\ Len(new) >= Len(old)
              /\ \A i \in 1..(Len(old) - 1) : new[i] = old[i] ]_vars

\* A fragment has been merged exactly 10000 ms after the latest chunk,
\* behind an earlier chunk that was closed by a longer pause.
C20_Witness ==
    /\ lastAction.type = "onTranscription"
    /\ heard = 3
    /\ Len(engine.state.transcript) = 2
    /\ engine.state.transcript[1].text = "t1"
    /\ engine.state.transcript[1].timestamp = StartClock
    /\ engine.state.transcript[2].text = "t1 t3!"
    /\ engine.state.transcript[2].timestamp = StartClock + 10001 + 10000

\* C21: an empty or whitespace-only text handed to onTranscription leaves
\* the engine with its transcript, duration and timer, the reducer state
\* with its error field, the hook and the Session as they were, and no
\* update callback is invoked.
C21_BlankIgnored ==
    [][ ( /\ lastAction'.type = "onTranscription"
          /\ spoken' \in BlankTexts )
        => /\ engine' = engine
           /\ state' = state
           /\ hook' = hook
           /\ session' = session
           /\ inflight' = inflight
           /\ ~notified' ]_vars

\* A whitespace-only text has arrived in a recording session that had
\* ingested a chunk and stood 10000 ms silent.
C21_Witness ==
    /\ lastAction.type = "onTranscription"
    /\ spoken = "  "
    /\ engine.speech
    /\ engine.state.isRecording
    /\ hook.isLive
    /\ Len(engine.state.transcript) = 1
    /\ now - engine.state.transcript[1].timestamp = 10000
    /\ state.error = NULL

\* C22: RESET, from any state, yields the idle state: status IDLE, empty
\* transcript and detectedPatterns, no tactic, strategy or error, zero
\* confidence, duration and lastTacticAtMs, focusScore 100; only the mode
\* is kept.
C22_ResetToIdle ==
    [][ lastAction'.type = "RESET"
        => state' = [status |-> "IDLE",
                     mode |-> state.mode,
                     transcript |-> <<>>,
                     transcriptText |-> "",
                     detectedPatterns |-> <<>>,
                     tactic |-> NULL,
                     confidence |-> 0,
                     suggestions |-> <<>>,
                     activeStrategy |-> NullStrategy,
                     lastTacticAtMs |-> 0,
                     startTime |-> 0,
                     duration |-> 0,
                     focusScore |-> 100,
                     audioLevel |-> 0,
                     error |-> NULL] ]_vars

\* RESET has just been applied to a session in job-interview mode.
C22_Witness ==
    /\ lastAction.type = "RESET"
    /\ state.mode = "job_interview"
    /\ state.status = "IDLE"
    /\ state.detectedPatterns = <<>>

\* ------------------------------- the Strategy Catalog and its cooldown gate
\* The tactics that have a Pattern Definition in PATTERN_LIBRARY.
TacticTaxonomy ==
    {"anchoring", "budget_objection", "authority_pressure", "time_pressure",
     "deflection", "strength_signal", "positive_signal", "negative_signal",
     "commitment_language"}

\* Tactics one run of the catalog is called with.
MaxTactics == 2

\* Arguments generateCounterStrategies is called with: confidences on both
\* sides of the thresholds, the default cooldown and the reducer's.
ConfidenceArgs == {59, 60, 69, 70, 95}
ThresholdArgs == {CONFIDENCE_THRESHOLD, 60}
CooldownArgs == {COOLDOWN_MS, TACTIC_COOLDOWN_MS}

\* Amounts Date.now() advances by between two calls.
CatalogSteps == {1, COOLDOWN_MS - 1}

\* isOnCooldown(tactic, cooldownMs) with the tracker tr at wall-clock time t;
\* an absent entry is 0.
isOnCooldown(tactic, cooldownMs, tr, t) ==
    IF tr[tactic] = 0 THEN FALSE ELSE t - tr[tactic] < cooldownMs

\* resetCooldown(tactic): cooldownTracker.delete(tactic)
resetCooldown(tactic, tr) == [tr EXCEPT ![tactic] = 0]

\* cooldownTracker.clear()
Cleared(tr) == [t \in DOMAIN tr |-> 0]

\* What is remembered of a call of the catalog: its arguments and the
\* strategy it returned.
Called(type, tactic, confidence, cooldownMs, threshold, strategy) ==
    [type |-> type, delivered |-> 0, added |-> 0, tactic |-> tactic,
     confidence |-> confidence, cooldownMs |-> cooldownMs,
     threshold |-> threshold, strategy |-> strategy]

\* A loaded module: an empty tracker, about to be called with the tactics
\* of one choice of MaxTactics tactics.
InitCatalog ==
    /\ state = createInitialState("sales")
    /\ \E T \in SUBSET TacticTaxonomy :
           /\ Cardinality(T) = MaxTactics
           /\ cooldownTracker = [t \in T |-> 0]
    /\ now = StartClock
    /\ ticks = 0
    /\ lastDispatchMs = 0
    /\ lastAction = Called(NULL, NULL, 0, 0, 0, NullStrategy)
    /\ SysInit

\* A call generateCounterStrategies(tactic, confidence, cooldownMs, threshold).
CallGenerate ==
    \E tactic \in DOMAIN cooldownTracker, confidence \in ConfidenceArgs,
       cooldownMs \in CooldownArgs, threshold \in ThresholdArgs :
        LET r == generateCounterStrategies(tactic, confidence, cooldownMs,
                                           threshold, cooldownTracker, now)
        IN /\ cooldownTracker' = r.tracker
           /\ lastAction' = Called("generateCounterStrategies", tactic,
                                   confidence, cooldownMs, threshold,
                                   r.strategy)
           /\ UNCHANGED <<state, now, ticks, lastDispatchMs, sysVars>>

\* A call resetCooldown(tactic).
CallResetCooldown ==
    \E tactic \in DOMAIN cooldownTracker :
        /\ cooldownTracker' = resetCooldown(tactic, cooldownTracker)
        /\ lastAction' = Called("resetCooldown", tactic, 0, 0, 0, NullStrategy)
        /\ UNCHANGED <<state, now, ticks, lastDispatchMs, sysVars>>

\* A call resetAllCooldowns().
CallResetAllCooldowns ==
    /\ cooldownTracker' = Cleared(cooldownTracker)
    /\ lastAction' = Called("resetAllCooldowns", NULL, 0, 0, 0, NullStrategy)
    /\ UNCHANGED <<state, now, ticks, lastDispatchMs, sysVars>>

\* Date.now() advances between two calls.
Elapse ==
    /\ ticks < MaxTicks
    /\ \E d \in CatalogSteps : now' = now + d
    /\ ticks' = ticks + 1
    /\ lastAction' = Called("elapse", NULL, 0, 0, 0, NullStrategy)
    /\ UNCHANGED <<state, cooldownTracker, lastDispatchMs, sysVars>>

NextCatalog ==
    \/ CallGenerate
    \/ CallResetCooldown
    \/ CallResetAllCooldowns
    \/ Elapse

SpecCatalog == InitCatalog /\ [][NextCatalog]_vars

\* The step is a call of generateCounterStrategies that passes both gates:
\* confidence >= threshold and the tactic not on cooldown.
PassesGates ==
    /\ lastAction'.type = "generateCounterStrategies"
    /\ lastAction'.confidence >= lastAction'.threshold
    /\ ~isOnCooldown(lastAction'.tactic, lastAction'.cooldownMs,
                     cooldownTracker, now)

\* The call returned a CounterStrategy for its tactic and stamped the
\* tactic's cooldown entry with now.
ReturnedAndStamped ==
    /\ lastAction'.strategy.tactic = lastAction'.tactic
    /\ lastAction'.strategy.confidence = lastAction'.confidence
    /\ lastAction'.strategy.suggestions # <<>>
    /\ lastAction'.strategy.timestamp = now
    /\ cooldownTracker' = [cooldownTracker EXCEPT ![lastAction'.tactic] = now]

\* C23: for every tactic of the taxonomy, a call of generate with
\* confidence >= threshold and the tactic not on cooldown returns a
\* CounterStrategy for that tactic and stamps the tactic's cooldown entry.
C23_EveryTacticHasStrategy ==
    [][ PassesGates => ReturnedAndStamped ]_vars

\* The same for the tactics that have an entry in COUNTER_STRATEGY_MAP.
C23_CatalogTacticHasStrategy ==
    [][ (PassesGates /\ lastAction'.tactic \in DOMAIN COUNTER_STRATEGY_MAP)
        => ReturnedAndStamped ]_vars

\* The step is a call of generateCounterStrategies.
IsGenerateCall == lastAction'.type = "generateCounterStrategies"

\* The call's tactic has a last-trigger timestamp less than cooldownMs
\* before now.
WithinCooldown ==
    /\ cooldownTracker[lastAction'.tactic] # 0
    /\ now - cooldownTracker[lastAction'.tactic] < lastAction'.cooldownMs

\* C24: generate returns no strategy when confidence < threshold or when the
\* tactic's last-trigger timestamp is less than cooldownMs before now, and
\* every call that returns no strategy leaves the Cooldown Tracker unchanged.
C24_RejectedLeavesTracker ==
    [][ IsGenerateCall =>
          /\ (lastAction'.confidence < lastAction'.threshold \/ WithinCooldown)
                => lastAction'.strategy = NullStrategy
          /\ lastAction'.strategy = NullStrategy
                => cooldownTracker' = cooldownTracker
          /\ lastAction'.strategy # NullStrategy
                => cooldownTracker'[lastAction'.tactic] = now ]_vars

\* A call rejected one millisecond before its cooldown of COOLDOWN_MS ends,
\* with a confidence that passes the threshold.
C24_Witness ==
    /\ lastAction.type = "generateCounterStrategies"
    /\ lastAction.strategy = NullStrategy
    /\ lastAction.confidence >= lastAction.threshold
    /\ lastAction.cooldownMs = COOLDOWN_MS
    /\ lastAction.tactic \in DOMAIN COUNTER_STRATEGY_MAP
    /\ cooldownTracker[lastAction.tactic] # 0
    /\ now - cooldownTracker[lastAction.tactic] = COOLDOWN_MS - 1

\* A call rejected below its threshold while the tactic is off cooldown.
C24_BelowThreshold ==
    /\ lastAction.type = "generateCounterStrategies"
    /\ lastAction.strategy = NullStrategy
    /\ lastAction.confidence = CONFIDENCE_THRESHOLD - 1
    /\ lastAction.threshold = CONFIDENCE_THRESHOLD
    /\ cooldownTracker[lastAction.tactic] = 0

\* The outcome of generate for tactic B under tracker tr at time t, for all
\* the arguments it can be called with.
OutcomeFor(B, tr, t) ==
    [args \in ConfidenceArgs \X CooldownArgs \X ThresholdArgs |->
        generateCounterStrategies(B, args[1], args[2], args[3], tr, t).strategy]

\* isOnCooldown(B, cooldownMs) under tracker tr at time t, for every cooldown.
OnCooldownFor(B, tr, t) ==
    [cooldownMs \in CooldownArgs |-> isOnCooldown(B, cooldownMs, tr, t)]

\* C25: a successful generate for tactic A changes only A's entry of the
\* Cooldown Tracker: for every other tactic B, isOnCooldown(B) and the
\* outcome of generate(B, ...) are what they were before A triggered.
C25_PerTacticCooldown ==
    [][ (IsGenerateCall /\ lastAction'.strategy # NullStrategy) =>
          \A B \in DOMAIN cooldownTracker \ {lastAction'.tactic} :
              /\ cooldownTracker'[B] = cooldownTracker[B]
              /\ OnCooldownFor(B, cooldownTracker', now)
                    = OnCooldownFor(B, cooldownTracker, now)
              /\ OutcomeFor(B, cooldownTracker', now)
                    = OutcomeFor(B, cooldownTracker, now) ]_vars

\* A has just triggered at now while another catalog tactic B, triggered
\* COOLDOWN_MS earlier, is off the default cooldown while A is on it:
\* B's next call is decided by its own entry.
C25_Witness ==
    /\ lastAction.type = "generateCounterStrategies"
    /\ lastAction.strategy # NullStrategy
    /\ cooldownTracker[lastAction.tactic] = now
    /\ \E B \in DOMAIN cooldownTracker \ {lastAction.tactic} :
           /\ B \in DOMAIN COUNTER_STRATEGY_MAP
           /\ cooldownTracker[B] # 0
           /\ now - cooldownTracker[B] = COOLDOWN_MS
           /\ ~isOnCooldown(B, COOLDOWN_MS, cooldownTracker, now)
           /\ isOnCooldown(lastAction.tactic, COOLDOWN_MS, cooldownTracker, now)

\* ---------------------------------------------------------- patternLibrary.ts
\* A structural pattern is a regular expression source: a phrase, or two
\* phrases around `.*`, written 'head .* tail' or 'head.* tail'. A phrase is
\* the sequence of its words.
Literal(head) == [head |-> head, tail |-> <<>>, gap |-> "none"]
Spaced(head, tail) == [head |-> head, tail |-> tail, gap |-> "spaced"]
Tight(head, tail) == [head |-> head, tail |-> tail, gap |-> "tight"]

\* The pattern definitions: what the classifier reads of them. Weights are
\* in thousandths.
PATTERN_LIBRARY ==
    "anchoring" :>
        [structuralPatterns |->
           << Spaced(<<"we">>, <<"offer">>), Spaced(<<"the">>, <<"range">>),
            Spaced(<<"typically">>, <<"is">>),
            Literal(<<"industry", "standard">>),
            Spaced(<<"expecting">>, <<"around">>),
            Spaced(<<"base">>, <<"is">>), Spaced(<<"looking">>, <<"for">>),
            Spaced(<<"budget">>, <<"is">>) >>,
         topicTags |->
           << <<"salary">>, <<"compensation">>, <<"package">>, <<"budget">>,
            <<"price">>, <<"cost">>, <<"pay">>, <<"base">>, <<"range">> >>,
         requiresNumber |-> TRUE,
         negativeSignals |->
           << <<"maybe">>, <<"if", "possible">>, <<"eventually">> >>,
         baseWeight |-> 650]
    @@ "budget_objection" :>
        [structuralPatterns |->
           << Literal(<<"too", "expensive">>),
            Spaced(<<"outside">>, <<"budget">>),
            Tight(<<"cost">>, <<"high">>),
            Literal(<<"we", "cannot", "afford">>),
            Spaced(<<"beyond">>, <<"means">>), Literal(<<"budget", "is">>),
            Literal(<<"pricy">>), Spaced(<<"not", "in">>, <<"budget">>),
            Spaced(<<"don't", "have">>, <<"budget">>),
            Literal(<<"too", "much">>), Literal(<<"pricey">>) >>,
         topicTags |->
           << <<"money">>, <<"budget">>, <<"cost">>, <<"expensive">>,
            <<"price">>, <<"afford">>, <<"funds">>, <<"capital">> >>,
         requiresNumber |-> FALSE,
         negativeSignals |->
           << <<"flexible">>, <<"might", "work">>, <<"open", "to">> >>,
         baseWeight |-> 700]
    @@ "authority_pressure" :>
        [structuralPatterns |->
           << Literal(<<"as", "per", "policy">>),
            Literal(<<"management", "decided">>),
            Literal(<<"company", "standard">>),
            Literal(<<"hr", "guideline">>),
            Spaced(<<"need">>, <<"approval">>),
            Spaced(<<"check", "with">>, <<"boss">>),
            Literal(<<"run", "it", "by">>),
            Literal(<<"up", "to", "my", "manager">>),
            Spaced(<<"don't", "have">>, <<"authority">>),
            Literal(<<"out", "of", "my", "hands">>) >>,
         topicTags |->
           << <<"manager">>, <<"boss">>, <<"approval">>, <<"policy">>,
            <<"guideline">>, <<"hr">>, <<"director">>, <<"vp">>, <<"board">> >>,
         requiresNumber |-> FALSE,
         negativeSignals |->
           << <<"i", "decide">>, <<"my", "call">>, <<"we", "can", "do">> >>,
         baseWeight |-> 750]
    @@ "time_pressure" :>
        [structuralPatterns |->
           << Literal(<<"we", "need", "this", "today">>),
            Literal(<<"deadline", "is">>), Literal(<<"urgent", "decision">>),
            Literal(<<"limited", "time">>), Literal(<<"offer", "expires">>),
            Literal(<<"need", "this", "by">>),
            Literal(<<"as", "soon", "as", "possible">>),
            Literal(<<"right", "away">>), Literal(<<"move", "fast">>),
            Literal(<<"quickly">>), Literal(<<"by", "the", "end", "of">>) >>,
         topicTags |->
           << <<"today">>, <<"tomorrow">>, <<"urgent">>, <<"deadline">>,
            <<"asap">>, <<"quickly">>, <<"rush">>, <<"speed">>, <<"now">> >>,
         requiresNumber |-> FALSE,
         negativeSignals |->
           << <<"no", "rush">>, <<"take", "your", "time">>, <<"whenever">> >>,
         baseWeight |-> 650]
    @@ "deflection" :>
        [structuralPatterns |->
           << Literal(<<"let's", "focus", "on">>),
            Literal(<<"not", "the", "main", "issue">>),
            Literal(<<"get", "back", "to", "that">>),
            Spaced(<<"right", "now">>, <<"discussing">>),
            Literal(<<"circle", "back">>),
            Spaced(<<"talk", "about">>, <<"later">>),
            Literal(<<"park", "that">>),
            Literal(<<"take", "that", "offline">>),
            Literal(<<"moving", "on">>) >>,
         topicTags |->
           << <<"later">>, <<"another", "time">>, <<"focus">>,
            <<"discussing">>, <<"issue">>, <<"offline">>, <<"park">> >>,
         requiresNumber |-> FALSE,
         negativeSignals |->
           << <<"i", "agree">>, <<"let", "us", "decide", "now">>,
            <<"perfect">> >>,
         baseWeight |-> 600]
    @@ "strength_signal" :>
        [structuralPatterns |->
           << Literal(<<"led", "a", "team">>), Literal(<<"achieved">>),
            Spaced(<<"improved">>, <<"by">>),
            Literal(<<"increased", "revenue">>),
            Spaced(<<"managed">>, <<"projects">>),
            Literal(<<"successfully", "delivered">>),
            Literal(<<"spearheaded">>),
            Literal(<<"was", "responsible", "for">>),
            Literal(<<"top", "performer">>),
            Literal(<<"exceeded", "goals">>) >>,
         topicTags |->
           << <<"leadership">>, <<"revenue">>, <<"successful">>,
            <<"achieved">>, <<"driven">>, <<"managed">>, <<"delivered">>,
            <<"exceeded">>, <<"impact">> >>,
         requiresNumber |-> FALSE,
         negativeSignals |->
           << <<"assisted">>, <<"helped">>, <<"was", "part", "of">> >>,
         baseWeight |-> 700]
    @@ "positive_signal" :>
        [structuralPatterns |->
           << Literal(<<"sounds", "good">>), Literal(<<"makes", "sense">>),
            Literal(<<"that", "works">>), Literal(<<"i", "like", "that">>),
            Literal(<<"great", "idea">>), Literal(<<"we", "agree">>),
            Literal(<<"we", "can", "do", "that">>),
            Literal(<<"looks", "perfect">>), Literal(<<"exactly", "right">>) >>,
         topicTags |->
           << <<"yes">>, <<"agree">>, <<"perfect">>, <<"exactly">>, <<"love">>,
            <<"great">>, <<"awesome">>, <<"good">> >>,
         requiresNumber |-> FALSE,
         negativeSignals |->
           << <<"however">>, <<"but">> >>,
         baseWeight |-> 800]
    @@ "negative_signal" :>
        [structuralPatterns |->
           << Literal(<<"not", "sure">>), Literal(<<"worried", "about">>),
            Literal(<<"don't", "think">>), Literal(<<"is", "a", "problem">>),
            Literal(<<"have", "concerns">>), Literal(<<"cannot", "work">>),
            Literal(<<"does", "not", "work">>), Literal(<<"impossible">>),
            Literal(<<"dealbreaker">>) >>,
         topicTags |->
           << <<"issue">>, <<"problem">>, <<"concerned">>, <<"skeptical">>,
            <<"worry">>, <<"no">>, <<"cannot">>, <<"dealbreaker">> >>,
         requiresNumber |-> FALSE,
         negativeSignals |->
           << <<"maybe">>, <<"could", "work">> >>,
         baseWeight |-> 750]
    @@ "commitment_language" :>
        [structuralPatterns |->
           << Literal(<<"let's", "do", "it">>), Literal(<<"we", "are", "in">>),
            Literal(<<"ready", "to", "start">>), Literal(<<"sign", "the">>),
            Literal(<<"move", "forward">>), Literal(<<"go", "ahead">>),
            Literal(<<"let's", "proceed">>) >>,
         topicTags |->
           << <<"deal">>, <<"agreed">>, <<"commit">>, <<"proceed">>,
            <<"sign">>, <<"forward">>, <<"start">> >>,
         requiresNumber |-> FALSE,
         negativeSignals |->
           << <<"maybe", "later">>, <<"soon">> >>,
         baseWeight |-> 850]

\* A matrix in which the salary scenario lists anchoring as boosted and as
\* neutral.
OverlappingMatrix ==
    [mode \in {"salary_raise", "job_interview", "startup_pitch", "sales",
               "investor_meeting", "client_negotiation", "custom_scenario"} |->
        IF mode = "job_interview"
        THEN [highWeight |-> {"strength_signal", "deflection"},
              mediumWeight |-> {"positive_signal", "time_pressure"},
              lowWeight |-> {"anchoring", "budget_objection"}]
        ELSE IF mode = "sales"
        THEN [highWeight |-> {"budget_objection", "time_pressure",
                              "commitment_language"},
              mediumWeight |-> {"authority_pressure", "deflection"},
              lowWeight |-> {"strength_signal"}]
        ELSE [highWeight |-> {"anchoring", "budget_objection"},
              mediumWeight |-> {"anchoring", "commitment_language"},
              lowWeight |-> {"strength_signal", "deflection"}]]

\* The mode matrix; mediumWeight is not read by the classifier.
MODE_INTENT_MATRIX ==
    "salary_raise" :>
        [highWeight |-> {"anchoring", "budget_objection"},
         mediumWeight |-> {"authority_pressure", "commitment_language"},
         lowWeight |-> {"strength_signal", "deflection"}]
    @@ "job_interview" :>
        [highWeight |-> {"strength_signal", "deflection"},
         mediumWeight |-> {"positive_signal", "time_pressure"},
         lowWeight |-> {"anchoring", "budget_objection"}]
    @@ "startup_pitch" :>
        [highWeight |-> {"budget_objection", "deflection"},
         mediumWeight |-> {"time_pressure", "positive_signal"},
         lowWeight |-> {"strength_signal"}]
    @@ "sales" :>
        [highWeight |-> {"budget_objection", "time_pressure",
                         "commitment_language"},
         mediumWeight |-> {"authority_pressure", "deflection"},
         lowWeight |-> {"strength_signal"}]
    @@ "investor_meeting" :>
        [highWeight |-> {"deflection", "budget_objection", "negative_signal"},
         mediumWeight |-> {"time_pressure", "authority_pressure"},
         lowWeight |-> {"strength_signal"}]
    @@ "client_negotiation" :>
        [highWeight |-> {"anchoring", "budget_objection", "time_pressure"},
         mediumWeight |-> {"authority_pressure", "deflection"},
         lowWeight |-> {"strength_signal"}]
    @@ "custom_scenario" :>
        [highWeight |-> {"anchoring", "deflection", "negative_signal"},
         mediumWeight |-> {"time_pressure", "budget_objection"},
         lowWeight |-> {"strength_signal"}]

\* The members of the NegotiationMode enum of types/session.ts.
SessionModes == {"job_interview", "sales", "startup_pitch", "salary_raise"}

\* -------------------------------------------------------- intentClassifier.ts
\* Object.values(NegotiationPattern), in the order of the enum.
IntentOrder ==
    <<"anchoring", "budget_objection", "authority_pressure", "time_pressure",
      "deflection", "positive_signal", "negative_signal",
      "commitment_language">>

\* A text is the sequence of its words, separated by single spaces.
Vocabulary ==
    {"we", "offers", "6", "ten", "budget", "is", "cost", "maybe", "perfect",
     "but", "manager", "quickly"}

\* 'We usually offer around 6 LPA for this position.'
ExampleText ==
    <<"We", "usually", "offer", "around", "6", "LPA", "for", "this",
      "position.">>

\* Words of a text drawn from the vocabulary.
MaxWords == 3

Texts ==
    UNION { [1..n -> Vocabulary] : n \in 0..MaxWords } \cup {ExampleText}

\* patternSensitivity, in tenths: the range 0.5 - 1.5 and the three settings.
Sensitivities == {5, 7, 10, 13, 15}

\* text.toLowerCase(), word by word.
toLowerCase(text) ==
    [i \in 1..Len(text) |->
        CASE text[i] = "We" -> "we"
          [] text[i] = "LPA" -> "lpa"
          [] OTHER -> text[i]]

\* The word between the \b boundaries of a token: the token without its
\* punctuation.
Bare(token) == IF token = "position." THEN "position" ELSE token

\* Tokens with a digit in them: /\d+/
HasDigit(token) == token \in {"6"}

\* /\b(one|two|...|k|m)\b/
NumberWords ==
    {"one", "two", "three", "four", "five", "six", "seven", "eight", "nine",
     "ten", "hundred", "thousand", "million", "k", "m"}

\* The substrings the tokens of the model have among the words of the
\* library: <<token, word>> with word at the start, at the end or inside.
ProperPrefix ==
    { <<"offers", "of">>, <<"offers", "offer">>, <<"offer", "of">>,
      <<"is", "i">>, <<"perfect", "per">>, <<"usually", "us">>,
      <<"around", "a">> }

ProperSuffix ==
    { <<"budget", "get">>, <<"lpa", "a">>, <<"this", "is">> }

ProperInfix ==
    { <<"maybe", "a">>, <<"manager", "a">>, <<"usually", "a">>,
      <<"quickly", "i">>, <<"this", "i">>, <<"position.", "i">>,
      <<"position.", "it">>, <<"position.", "on">> }

\* A word of a phrase found in a token: the token must start with the word
\* where the phrase has a space before it and end with it where the phrase
\* has a space after it.
WordFits(token, word, spaceBefore, spaceAfter) ==
    \/ token = word
    \/ ~spaceBefore /\ <<token, word>> \in ProperSuffix
    \/ ~spaceAfter /\ <<token, word>> \in ProperPrefix
    \/ ~spaceBefore /\ ~spaceAfter /\ <<token, word>> \in ProperInfix
    \/ ~spaceBefore /\ ~spaceAfter /\ <<token, word>> \in ProperSuffix
    \/ ~spaceBefore /\ ~spaceAfter /\ <<token, word>> \in ProperPrefix

\* The phrase lies on the tokens i .. i + Len(phrase) - 1 of the lower-cased
\* text; spaceBefore / spaceAfter say whether the pattern has a space before
\* the phrase's first word and after its last.
PhraseAt(lowerText, phrase, i, spaceBefore, spaceAfter) ==
    /\ i >= 1
    /\ i + Len(phrase) - 1 <= Len(lowerText)
    /\ \A k \in 1..Len(phrase) :
           WordFits(lowerText[i + k - 1], phrase[k],
                    k > 1 \/ spaceBefore, k < Len(phrase) \/ spaceAfter)

\* lowerText.includes(phrase), and regex.test(lowerText) for a phrase
Includes(lowerText, phrase) ==
    \E i \in 1..Len(lowerText) : PhraseAt(lowerText, phrase, i, FALSE, FALSE)

\* new RegExp(structPattern, 'i').test(lowerText)
RegExpTest(structPattern, lowerText) ==
    CASE structPattern.gap = "none" -> Includes(lowerText, structPattern.head)
      [] structPattern.gap = "spaced" ->
           \E i, j \in 1..Len(lowerText) :
               /\ PhraseAt(lowerText, structPattern.head, i, FALSE, TRUE)
               /\ PhraseAt(lowerText, structPattern.tail, j, TRUE, FALSE)
               /\ j >= i + Len(structPattern.head) + 1
      [] structPattern.gap = "tight" ->
           \E i, j \in 1..Len(lowerText) :
               /\ PhraseAt(lowerText, structPattern.head, i, FALSE, FALSE)
               /\ PhraseAt(lowerText, structPattern.tail, j, TRUE, FALSE)
               /\ j >= i + Len(structPattern.head)

\* new RegExp(`\\b${tag}\\b`, 'i').test(lowerText)
TagTest(tag, lowerText) ==
    \E i \in 1..Len(lowerText) :
        /\ i + Len(tag) - 1 <= Len(lowerText)
        /\ \A k \in 1..Len(tag) : Bare(lowerText[i + k - 1]) = tag[k]

hasNumbers(lowerText) ==
    \E i \in 1..Len(lowerText) :
        HasDigit(lowerText[i]) \/ Bare(lowerText[i]) \in NumberWords

\* 1 if a structural pattern matches, else 0
structuralScore(patternDef, lowerText) ==
    IF \E k \in 1..Len(patternDef.structuralPatterns) :
           RegExpTest(patternDef.structuralPatterns[k], lowerText)
    THEN 1 ELSE 0

\* topicScore in halves: 0.5 per tag found, at most 1.0
topicScore(patternDef, lowerText) ==
    LET found == { k \in 1..Len(patternDef.topicTags) :
                      TagTest(patternDef.topicTags[k], lowerText) }
    IN IF Cardinality(found) >= 2 THEN 2 ELSE Cardinality(found)

negativePenalty(patternDef, lowerText) ==
    IF \E k \in 1..Len(patternDef.negativeSignals) :
           Includes(lowerText, patternDef.negativeSignals[k])
    THEN 1 ELSE 0

\* The numeric requirement read as a preference: no tactic is discarded.
NeverMissing(patternDef, lowerText) == FALSE

\* The pattern requires a number and the text has none: `continue`
MissingNumber(patternDef, lowerText) ==
    patternDef.requiresNumber /\ ~hasNumbers(lowerText)

\* The mode matrix read the wrong way round.
InvertedAdjustment(mode, intent) ==
    IF mode \notin DOMAIN MODE_INTENT_MATRIX THEN 0
    ELSE IF intent \in MODE_INTENT_MATRIX[mode].highWeight THEN -150
    ELSE IF intent \in MODE_INTENT_MATRIX[mode].lowWeight THEN 150
    ELSE 0

\* modeAdjustment, in thousandths
modeAdjustment(mode, intent) ==
    IF mode \notin DOMAIN MODE_INTENT_MATRIX THEN 0
    ELSE IF intent \in MODE_INTENT_MATRIX[mode].highWeight THEN 150
    ELSE IF intent \in MODE_INTENT_MATRIX[mode].lowWeight THEN -150
    ELSE 0

\* The percentage left as computed.
Unclamped(finalScore) == finalScore

\* Math.min(Math.max(finalScore * 100, 0), 100), in hundredths of a percent
Clamped(finalScore) ==
    IF finalScore < 0 THEN 0
    ELSE IF finalScore > 10000 THEN 10000 ELSE finalScore

\* finalConfidenceScore of a pattern that is not skipped, in hundredths of a
\* percent: thousandths times the sensitivity in tenths.
finalConfidenceScore(intent, lowerText, mode, sensitivityMultiplier) ==
    LET patternDef == PATTERN_LIBRARY[intent]
        primaryMatchScore ==
            IF structuralScore(patternDef, lowerText) > 0
            THEN patternDef.baseWeight
            ELSE (patternDef.baseWeight * 7) \div 10
        numericScore == IF patternDef.requiresNumber THEN 1 ELSE 0
        rawScore == primaryMatchScore
                    + 125 * topicScore(patternDef, lowerText)
                    + 100 * numericScore
                    - 250 * negativePenalty(patternDef, lowerText)
    IN Clamped((rawScore + modeAdjustment(mode, intent))
               * sensitivityMultiplier)

\* The pattern is skipped by one of the two `continue` statements.
Skipped(intent, lowerText) ==
    LET patternDef == PATTERN_LIBRARY[intent]
    IN \/ /\ structuralScore(patternDef, lowerText) = 0
          /\ topicScore(patternDef, lowerText) = 0
       \/ MissingNumber(patternDef, lowerText)

\* The candidates pushed by the loop over the first n patterns.
RECURSIVE Candidates(_, _, _, _)
Candidates(n, lowerText, mode, sensitivityMultiplier) ==
    IF n = 0 THEN <<>>
    ELSE LET rest == Candidates(n - 1, lowerText, mode, sensitivityMultiplier)
             intent == IntentOrder[n]
         IN IF Skipped(intent, lowerText) THEN rest
            ELSE Append(rest,
                   [intent |-> intent,
                    score |-> finalConfidenceScore(intent, lowerText, mode,
                                                   sensitivityMultiplier)])

\* candidates.sort((a, b) => b.score - a.score): a stable sort
InsertByScore(sorted, c) ==
    LET before == { i \in 1..Len(sorted) : sorted[i].score >= c.score }
        k == Cardinality(before)
    IN SubSeq(sorted, 1, k) \o <<c>> \o SubSeq(sorted, k + 1, Len(sorted))

RECURSIVE SortByScore(_)
SortByScore(list) ==
    IF list = <<>> THEN <<>>
    ELSE InsertByScore(SortByScore(SubSeq(list, 1, Len(list) - 1)),
                       list[Len(list)])

\* The first candidate pushed, whatever its score.
FirstEvaluated(candidates) == candidates[1]

\* const winner = candidates[0], after the sort
Winner(candidates) == SortByScore(candidates)[1]

\* classifyIntent(text, mode, sensitivityMultiplier) at Date.now() =
\* timestamp: the fields of the DetectedPattern the reducer and the engine
\* read, confidenceScore in hundredths of a percent.
classifyIntent(text, mode, sensitivityMultiplier, timestamp) ==
    LET candidates == Candidates(Len(IntentOrder), toLowerCase(text), mode,
                                 sensitivityMultiplier)
    IN IF candidates = <<>> THEN <<>>
       ELSE LET winner == Winner(candidates)
            IN IF winner.score >= 6000
               THEN << [id |-> winner.intent \o "_" \o ToString(timestamp),
                        pattern |-> winner.intent,
                        confidenceScore |-> winner.score,
                        transcript |-> text] >>
               ELSE <<>>

\* What is remembered of a call of the classifier: its arguments, the
\* candidates it scored and the patterns it returned.
Classified(text, mode, sensitivityMultiplier, candidates, patterns) ==
    [type |-> "classifyIntent", delivered |-> 0, added |-> 0, text |-> text,
     mode |-> mode, sensitivityMultiplier |-> sensitivityMultiplier,
     candidates |-> candidates, patterns |-> patterns]

\* A text about to be classified in a mode at a sensitivity.
InitClassify ==
    /\ state = createInitialState("sales")
    /\ cooldownTracker = EmptyTracker
    /\ now = StartClock
    /\ ticks = 0
    /\ lastDispatchMs = 0
    /\ \E text \in Texts, mode \in SessionModes,
          sensitivityMultiplier \in Sensitivities :
           lastAction = [type |-> "text", delivered |-> 0, added |-> 0,
                         text |-> text, mode |-> mode,
                         sensitivityMultiplier |-> sensitivityMultiplier,
                         candidates |-> <<>>, patterns |-> <<>>]
    /\ SysInit

\* The call classifyIntent(text, mode, sensitivityMultiplier).
CallClassifyIntent ==
    /\ lastAction.type = "text"
    /\ lastAction' =
          Classified(lastAction.text, lastAction.mode,
                     lastAction.sensitivityMultiplier,
                     Candidates(Len(IntentOrder),
                                toLowerCase(lastAction.text), lastAction.mode,
                                lastAction.sensitivityMultiplier),
                     classifyIntent(lastAction.text, lastAction.mode,
                                    lastAction.sensitivityMultiplier, now))
    /\ UNCHANGED <<state, cooldownTracker, now, ticks, lastDispatchMs,
                   sysVars>>

NextClassify == CallClassifyIntent

SpecClassify == InitClassify /\ [][NextClassify]_vars

\* ------------------------------------------------- claims on the classifier
\* The state is the result of a call of classifyIntent.
IsClassified == lastAction.type = "classifyIntent"

\* The example: 'We usually offer around 6 LPA for this position.' classified
\* in job_interview mode at sensitivity 1.0.
IsExampleCall ==
    /\ IsClassified
    /\ lastAction.text = ExampleText
    /\ lastAction.mode = "job_interview"
    /\ lastAction.sensitivityMultiplier = 10

\* A DetectedPattern with its confidenceScore in whole percents, as the
\* reducer and the catalog compare it with their thresholds.
InPercent(pattern) ==
    [pattern EXCEPT !.confidenceScore = @ \div 100]

\* The reducer state after the patterns are dispatched, as the first
\* TACTIC_DETECTED, to a session just started in the mode of the call with
\* an empty cooldown tracker.
Dispatched(patterns) ==
    sessionReducer(
        StartSessionCase([type |-> "START_SESSION", mode |-> lastAction.mode,
                          startTime |-> now]),
        [type |-> "TACTIC_DETECTED",
         patterns |-> [i \in 1..Len(patterns) |-> InPercent(patterns[i])],
         focusScore |-> 100, timestampMs |-> now],
        [t \in TacticTaxonomy |-> 0], now).state

HasSuggestion(strategy, suggestion) ==
    \E k \in 1..Len(strategy.suggestions) :
        strategy.suggestions[k] = suggestion

\* C26: classifying the example text in the job-interview scenario at
\* sensitivity 1.0 detects Anchoring with confidence >= 60, and feeding that
\* detection through the session state machine returns a CounterStrategy
\* whose suggestions include "Ask for a detailed cost breakdown".
C26_ExampleScenario ==
    IsExampleCall =>
        /\ Len(lastAction.patterns) = 1
        /\ lastAction.patterns[1].pattern = "anchoring"
        /\ lastAction.patterns[1].confidenceScore >= 6000
        /\ HasSuggestion(Dispatched(lastAction.patterns).activeStrategy,
                         "Ask for a detailed cost breakdown")

\* What the example does: Anchoring is detected at exactly 60 and neither
\* the reducer nor the catalog with its default threshold returns a strategy.
C26_ExampleDetectedOnly ==
    IsExampleCall =>
        /\ Len(lastAction.patterns) = 1
        /\ lastAction.patterns[1].pattern = "anchoring"
        /\ lastAction.patterns[1].confidenceScore = 6000
        /\ Dispatched(lastAction.patterns).activeStrategy = NullStrategy
        /\ Dispatched(lastAction.patterns).tactic = NULL
        /\ generateCounterStrategies(
               "anchoring", 60, COOLDOWN_MS, CONFIDENCE_THRESHOLD,
               [t \in TacticTaxonomy |-> 0], now).strategy = NullStrategy

\* The example text in sales mode, where Anchoring is not suppressed: the
\* detection at 75 brings the strategy with the suggestion.
C26_ExampleInSales ==
    ( /\ IsClassified
      /\ lastAction.text = ExampleText
      /\ lastAction.mode = "sales"
      /\ lastAction.sensitivityMultiplier = 10 ) =>
        /\ Len(lastAction.patterns) = 1
        /\ lastAction.patterns[1].pattern = "anchoring"
        /\ lastAction.patterns[1].confidenceScore = 7500
        /\ HasSuggestion(Dispatched(lastAction.patterns).activeStrategy,
                         "Ask for a detailed cost breakdown")

\* C27: winner-take-all: classify emits at most one Detected Pattern, and
\* when it emits one it is for a tactic whose final score is the maximum
\* over all tactics that were not discarded.
C27_WinnerTakeAll ==
    IsClassified =>
        /\ Len(lastAction.patterns) <= 1
        /\ lastAction.patterns # <<>> =>
              /\ \E k \in 1..Len(lastAction.candidates) :
                     /\ lastAction.candidates[k].intent
                           = lastAction.patterns[1].pattern
                     /\ lastAction.candidates[k].score
                           = lastAction.patterns[1].confidenceScore
              /\ \A k \in 1..Len(lastAction.candidates) :
                     lastAction.candidates[k].score
                        <= lastAction.patterns[1].confidenceScore

\* Two candidates above 60, and the one emitted is not the one evaluated
\* first but the one with the strictly higher score.
C27_Witness ==
    /\ IsClassified
    /\ Len(lastAction.candidates) >= 2
    /\ lastAction.candidates[1].score >= 6000
    /\ Len(lastAction.patterns) = 1
    /\ lastAction.patterns[1].pattern # lastAction.candidates[1].intent
    /\ lastAction.patterns[1].confidenceScore > lastAction.candidates[1].score

\* The text has no digit sequence and no number or quantity word.
NoNumberIn(text) ==
    \A i \in 1..Len(text) :
        /\ ~HasDigit(toLowerCase(text)[i])
        /\ Bare(toLowerCase(text)[i]) \notin NumberWords

\* C28: numeric requirement gate: for every tactic whose Pattern Definition
\* requires a numeric quantity, classifying a text with no digit sequence
\* and no number word never returns that tactic, whatever phrases or topic
\* terms match and whatever the scenario and sensitivity.
C28_NumericGate ==
    (IsClassified /\ NoNumberIn(lastAction.text)) =>
        \A intent \in DOMAIN PATTERN_LIBRARY :
            PATTERN_LIBRARY[intent].requiresNumber =>
                /\ \A k \in 1..Len(lastAction.patterns) :
                       lastAction.patterns[k].pattern # intent
                /\ \A k \in 1..Len(lastAction.candidates) :
                       lastAction.candidates[k].intent # intent

\* A text without a number in which a structural phrase and a topic term of
\* Anchoring match, classified in the mode that boosts Anchoring at the
\* highest sensitivity.
C28_Witness ==
    /\ IsClassified
    /\ NoNumberIn(lastAction.text)
    /\ structuralScore(PATTERN_LIBRARY["anchoring"],
                       toLowerCase(lastAction.text)) = 1
    /\ topicScore(PATTERN_LIBRARY["anchoring"],
                  toLowerCase(lastAction.text)) >= 1
    /\ lastAction.mode = "salary_raise"
    /\ lastAction.sensitivityMultiplier = 15
    /\ lastAction.patterns # <<>>

\* -1 where the mode's suppressed set contains the tactic, 1 where its
\* boosted set does, 0 where the tactic is neutral.
ScenarioRank(mode, intent) ==
    IF intent \in MODE_INTENT_MATRIX[mode].highWeight THEN 1
    ELSE IF intent \in MODE_INTENT_MATRIX[mode].lowWeight THEN -1
    ELSE 0

\* C29: monotonic scenario penalty: a tactic's final score under a scenario
\* that suppresses it is at most its score for the same text and sensitivity
\* under a scenario where it is neutral, which is at most its score under a
\* scenario that boosts it.
C29_MonotonicPenalty ==
    IsClassified =>
        \A k \in 1..Len(lastAction.candidates) :
            \A other \in DOMAIN MODE_INTENT_MATRIX :
                LET c == lastAction.candidates[k]
                    elsewhere ==
                        finalConfidenceScore(
                            c.intent, toLowerCase(lastAction.text), other,
                            lastAction.sensitivityMultiplier)
                IN /\ ScenarioRank(lastAction.mode, c.intent)
                          <= ScenarioRank(other, c.intent)
                      => c.score <= elsewhere
                   /\ ScenarioRank(lastAction.mode, c.intent)
                          >= ScenarioRank(other, c.intent)
                      => c.score >= elsewhere

\* Anchoring scored in the mode that suppresses it, strictly below its score
\* in a neutral mode, which is strictly below its score in the boosting mode.
C29_Witness ==
    /\ IsClassified
    /\ lastAction.mode = "job_interview"
    /\ \E k \in 1..Len(lastAction.candidates) :
           LET c == lastAction.candidates[k]
               lowerText == toLowerCase(lastAction.text)
               s == lastAction.sensitivityMultiplier
           IN /\ c.intent = "anchoring"
              /\ ScenarioRank("job_interview", "anchoring") = -1
              /\ ScenarioRank("sales", "anchoring") = 0
              /\ ScenarioRank("salary_raise", "anchoring") = 1
              /\ c.score < finalConfidenceScore("anchoring", lowerText,
                                                "sales", s)
              /\ finalConfidenceScore("anchoring", lowerText, "sales", s)
                    < finalConfidenceScore("anchoring", lowerText,
                                           "salary_raise", s)

\* C30: every Detected Pattern emitted by classify has a confidenceScore in
\* [60, 100] (6000..10000 hundredths), for every sensitivity in [0.5, 1.5].
C30_ConfidenceRange ==
    IsClassified =>
        \A k \in 1..Len(lastAction.patterns) :
            /\ lastAction.patterns[k].confidenceScore >= 6000
            /\ lastAction.patterns[k].confidenceScore <= 10000

\* A pattern emitted at 100: a structural phrase and two topic terms of a
\* tactic the mode boosts, at sensitivity 1.5, come to 165 before the clamp.
C30_Witness ==
    /\ IsClassified
    /\ lastAction.sensitivityMultiplier = 15
    /\ lastAction.mode = "sales"
    /\ Len(lastAction.patterns) = 1
    /\ lastAction.patterns[1].confidenceScore = 10000
    /\ lastAction.patterns[1].pattern = "budget_objection"
    /\ structuralScore(PATTERN_LIBRARY["budget_objection"],
                       toLowerCase(lastAction.text)) = 1
    /\ topicScore(PATTERN_LIBRARY["budget_objection"],
                  toLowerCase(lastAction.text)) = 2

\* A winner just below 60 that is not emitted.
C30_WinnerBelowSixty ==
    /\ IsClassified
    /\ lastAction.patterns = <<>>
    /\ \E k \in 1..Len(lastAction.candidates) :
           /\ lastAction.candidates[k].score < 6000
           /\ lastAction.candidates[k].score >= 5900

\* ---------------------------------------------------------------- C31
\* The sets of a scenario's row that list the tactic.
SetsListing(mode, intent) ==
    {w \in {"highWeight", "mediumWeight", "lowWeight"} :
        intent \in MODE_INTENT_MATRIX[mode][w]}

\* C31: in the scenario weight matrix consulted by a classification every
\* tactic appears in at most one of the boosted, neutral and suppressed sets
\* of each scenario.
C31_DisjointWeightSets ==
    IsClassified =>
    \A mode \in DOMAIN MODE_INTENT_MATRIX :
        \A intent \in TacticTaxonomy :
            Cardinality(SetsListing(mode, intent)) <= 1

\* A classification in a scenario whose row boosts one candidate and lists
\* another as neutral.
C31_Witness ==
    /\ IsClassified
    /\ \E i, j \in 1..Len(lastAction.candidates) :
           /\ SetsListing(lastAction.mode, lastAction.candidates[i].intent)
                  = {"highWeight"}
           /\ SetsListing(lastAction.mode, lastAction.candidates[j].intent)
                  = {"mediumWeight"}

\* ------------------------------------------------------------ scoringEngine
MaxGaps == 3
MaxFillers == 4

\* sessionDuration in milliseconds, around the 0.1 minute guard and beyond.
SessionDurations == {0, 5999, 6000, 45000, 60000, 90000}

\* avgSpeechRate in words per minute, around the band [80, 200].
SpeechRates == {0, 1, 40, 79, 80, 130, 200, 201, 250, 300, 301, 400}

MetricsArgs ==
    [speechGaps : 0..MaxGaps, fillerWords : 0..MaxFillers,
     avgSpeechRate : SpeechRates]

Smaller(a, b) == IF a < b THEN a ELSE b

\* The rate read as given, 0 included.
RateAsGiven(avgSpeechRate) == avgSpeechRate

\* metrics.avgSpeechRate || 130: a rate of 0 is falsy.
OrDefaultRate(avgSpeechRate) ==
    IF avgSpeechRate = 0 THEN 130 ELSE avgSpeechRate

\* Math.min((gapsPerMinute / 5) * 40, 40) times sessionDuration.
gapPenalty(speechGaps, sessionDuration) ==
    Smaller(480000 * speechGaps, 40 * sessionDuration)

\* Math.min((fillersPerMinute / 10) * 50, 50) times sessionDuration.
fillerPenalty(fillerWords, sessionDuration) ==
    Smaller(300000 * fillerWords, 50 * sessionDuration)

\* ratePenalty in fortieths of a point.
ratePenalty(avgSpeechRate) ==
    Smaller(IF avgSpeechRate < 80 THEN 15 * (80 - avgSpeechRate)
            ELSE IF avgSpeechRate > 200 THEN 12 * (avgSpeechRate - 200)
            ELSE 0,
            1200)

\* gapPenalty * 0.3 + fillerPenalty * 0.4 + ratePenalty * 0.3 as a fraction
\* with denominator 400 * sessionDuration.
PenaltyNumerator(speechGaps, fillerWords, avgSpeechRate, sessionDuration) ==
    120 * gapPenalty(speechGaps, sessionDuration)
    + 160 * fillerPenalty(fillerWords, sessionDuration)
    + 3 * ratePenalty(avgSpeechRate) * sessionDuration

\* Math.round(100 - numerator / denominator), which rounds halves upwards,
\* for a positive denominator.
MathRound(numerator, denominator) ==
    100 + ((denominator \div 2 - numerator) \div denominator)

Clamp100(score) == IF score < 0 THEN 0 ELSE IF score > 100 THEN 100 ELSE score

calculateFocusScore(metrics, sessionDuration) ==
    IF sessionDuration < 6000 THEN 100
    ELSE Clamp100(MathRound(
             PenaltyNumerator(metrics.speechGaps, metrics.fillerWords,
                              OrDefaultRate(metrics.avgSpeechRate),
                              sessionDuration),
             400 * sessionDuration))

Scored(type, metrics, sessionDuration, focusScore) ==
    [type |-> type, delivered |-> 0, added |-> 0, metrics |-> metrics,
     sessionDuration |-> sessionDuration, focusScore |-> focusScore]

InitFocus ==
    /\ \E metrics \in MetricsArgs, sessionDuration \in SessionDurations :
           lastAction = Scored("metrics", metrics, sessionDuration, 0)
    /\ state = createInitialState("sales")
    /\ cooldownTracker = EmptyTracker
    /\ now = StartClock
    /\ ticks = 0
    /\ lastDispatchMs = 0
    /\ SysInit

CallCalculateFocusScore ==
    /\ lastAction.type = "metrics"
    /\ lastAction' =
           Scored("calculateFocusScore", lastAction.metrics,
                  lastAction.sessionDuration,
                  calculateFocusScore(lastAction.metrics,
                                      lastAction.sessionDuration))
    /\ UNCHANGED <<state, cooldownTracker, now, ticks, lastDispatchMs,
                   sysVars>>

NextFocus == CallCalculateFocusScore

SpecFocus == InitFocus /\ [][NextFocus]_vars

\* ---------------------------------------------------------------- C32
IsFocusCall == lastAction.type = "calculateFocusScore"

\* What the reference function takes from 100, as a fraction with
\* denominator 400 * sessionDuration: 0.3 gapPenalty + 0.4 fillerPenalty
\* + 0.3 ratePenalty with the rate penalty taken from the rate as given, cut
\* so that the score stays in [0, 100].
ReferencePenalty(metrics, sessionDuration) ==
    LET numerator ==
            PenaltyNumerator(metrics.speechGaps, metrics.fillerWords,
                             RateAsGiven(metrics.avgSpeechRate),
                             sessionDuration)
    IN IF numerator < 0 THEN 0
       ELSE IF numerator \div (400 * sessionDuration) >= 100
       THEN 100 * (400 * sessionDuration)
       ELSE numerator

\* C32 as stated: the focus score equals the reference function for all
\* inputs: 100 under 6000 ms, else the clamped reference value, for every
\* avgSpeechRate including 0.
C32_FocusEqualsReference ==
    IsFocusCall =>
        IF lastAction.sessionDuration < 6000
        THEN lastAction.focusScore = 100
        ELSE (100 - lastAction.focusScore) * 400 * lastAction.sessionDuration
                 = ReferencePenalty(lastAction.metrics,
                                    lastAction.sessionDuration)

\* C32 up to rounding, which the statement above implies: the focus score is
\* within half a point of the reference function for all inputs.
C32_FocusRoundsReference ==
    IsFocusCall =>
        IF lastAction.sessionDuration < 6000
        THEN lastAction.focusScore = 100
        ELSE LET d == 400 * lastAction.sessionDuration
                 diff == (100 - lastAction.focusScore) * d
                         - ReferencePenalty(lastAction.metrics,
                                            lastAction.sessionDuration)
             IN diff <= d \div 2 /\ diff >= -(d \div 2)

\* C32 for speakers: with an avgSpeechRate other than 0 the focus score is the
\* reference value rounded to the nearest integer.
C32_FocusRoundsReferenceUnlessSilent ==
    (IsFocusCall /\ lastAction.metrics.avgSpeechRate # 0)
        => C32_FocusRoundsReference

\* C32, the example: 60 s, no gaps, no filler words, 130 words per minute
\* gives exactly 100, as does every call under 6000 ms.
C32_ExampleExactlyHundred ==
    (/\ IsFocusCall
     /\ \/ lastAction.sessionDuration < 6000
        \/ /\ lastAction.sessionDuration = 60000
           /\ lastAction.metrics
                  = [speechGaps |-> 0, fillerWords |-> 0,
                     avgSpeechRate |-> 130])
        => lastAction.focusScore = 100

\* A minute in which no word was spoken, scored 100.
C32_SilentMinute ==
    /\ IsFocusCall
    /\ lastAction.sessionDuration = 60000
    /\ lastAction.metrics
           = [speechGaps |-> 0, fillerWords |-> 0, avgSpeechRate |-> 0]
    /\ lastAction.focusScore = 100

\* ---------------------------------------------------------------- C33
\* Detected patterns of two tactics of the catalog with rising confidence, so
\* that each can become the top pattern after the other.
RisingPatterns ==
    { [id |-> "anchoring_5", pattern |-> "anchoring",
       confidenceScore |-> 75, transcript |-> "t1"],
      [id |-> "budget_objection_6", pattern |-> "budget_objection",
       confidenceScore |-> 80, transcript |-> "t1"],
      [id |-> "anchoring_7", pattern |-> "anchoring",
       confidenceScore |-> 85, transcript |-> "t1"] }

RisingPatternLists ==
    {<<>>} \cup { <<p>> : p \in RisingPatterns }

\* The running session after its first detection, Anchoring at 75, was
\* accepted at StartClock.
InitRising ==
    LET running ==
            TranscriptChunk(
                StartSessionCase([type |-> "START_SESSION", mode |-> "sales",
                                  startTime |-> StartClock]),
                [type |-> "TRANSCRIPT_CHUNK",
                 chunk |-> CHOOSE c \in Chunks : TRUE])
        first == [type |-> "TACTIC_DETECTED",
                  patterns |-> << CHOOSE p \in RisingPatterns :
                                      p.id = "anchoring_5" >>,
                  focusScore |-> 100, timestampMs |-> StartClock]
        r == sessionReducer(running, first, resetAllCooldowns, StartClock)
    IN /\ state = r.state
       /\ cooldownTracker = r.tracker
       /\ now = StartClock
       /\ ticks = 0
       /\ lastDispatchMs = StartClock
       /\ lastAction = [type |-> "TACTIC_DETECTED", delivered |-> 1,
                        added |-> 1]
       /\ SysInit

\* The session receives the rising patterns while time passes.
NextRising ==
    \/ Tick
    \/ TACTIC_DETECTED(RisingPatternLists)

SpecRising == InitRising /\ [][NextRising]_vars

\* C33: whenever tactic and activeStrategy are both non-null,
\* activeStrategy.tactic equals tactic and suggestions equals
\* activeStrategy.suggestions.
C33_StrategyBelongsToTactic ==
    (state.tactic # NULL /\ state.activeStrategy # NullStrategy)
        => /\ state.activeStrategy.tactic = state.tactic
           /\ state.suggestions = state.activeStrategy.suggestions

\* The part of C33 that holds: suggestions always equals
\* activeStrategy.suggestions.
C33_SuggestionsOfStrategy ==
    state.suggestions = state.activeStrategy.suggestions

\* Anchoring shown as the current tactic over the strategy for the budget
\* objection, while the catalog holds Anchoring on cooldown.
C33_StaleStrategy ==
    /\ state.tactic = "anchoring"
    /\ state.activeStrategy.tactic = "budget_objection"
    /\ cooldownTracker["anchoring"] # 0
    /\ now - cooldownTracker["anchoring"] < TACTIC_COOLDOWN_MS

\* ---------------------------------------------------------------- C34
UniqueIds(patterns) ==
    \A i, j \in 1..Len(patterns) :
        patterns[i].id = patterns[j].id => i = j

\* C34: in every reachable session state no two entries of detectedPatterns
\* share an id, for any sequence of TACTIC_DETECTED events, lists that repeat
\* a new id included.
C34_UniqueIds == UniqueIds(state.detectedPatterns)

\* One event that delivered the same new id twice and left both in
\* detectedPatterns.
C34_RepeatedInOneEvent ==
    /\ lastAction.type = "TACTIC_DETECTED"
    /\ lastAction.delivered = 2
    /\ lastAction.added = 2
    /\ Len(state.detectedPatterns) = 2
    /\ state.detectedPatterns[1].id = state.detectedPatterns[2].id

\* ---------------------------------------------------------------- C35
\* A step of the session that puts a new counter-strategy into
\* activeStrategy.
ProducesStrategy ==
    /\ lastAction'.type = "TACTIC_DETECTED"
    /\ state'.activeStrategy # NullStrategy
    /\ state'.activeStrategy # state.activeStrategy

\* C35: within one session two counter-strategies for the same tactic are at
\* least TACTIC_COOLDOWN_MS apart: a new activeStrategy is that much later
\* than the strategy it replaces when both are for the same tactic, and that
\* much later than the last strategy produced for its tactic in this session
\* (the stamp of the tracker, emptied at session start) whatever was accepted
\* in between.
C35_SameTacticSpacing ==
    [][ ProducesStrategy =>
          LET new == state'.activeStrategy
          IN /\ state.activeStrategy.tactic = new.tactic
                  => new.timestamp - state.activeStrategy.timestamp
                         >= TACTIC_COOLDOWN_MS
             /\ cooldownTracker[new.tactic] # 0
                  => new.timestamp - cooldownTracker[new.tactic]
                         >= TACTIC_COOLDOWN_MS ]_vars

\* The tracker holds the timestamp of the last strategy produced for the
\* tactic of activeStrategy.
C35_TrackerIsLastTimestamp ==
    state.activeStrategy # NullStrategy
        => cooldownTracker[state.activeStrategy.tactic]
               = state.activeStrategy.timestamp

\* In the session whose first strategy was for Anchoring at StartClock: a
\* second strategy for Anchoring, produced TACTIC_COOLDOWN_MS or more later,
\* after a strategy for the budget objection was produced in between.
C35_Witness ==
    /\ state.activeStrategy.tactic = "anchoring"
    /\ state.activeStrategy.confidence = 85
    /\ state.activeStrategy.timestamp >= StartClock + TACTIC_COOLDOWN_MS
    /\ cooldownTracker["budget_objection"] # 0
    /\ cooldownTracker["budget_objection"] < state.activeStrategy.timestamp

\* ------------------------------------- useLiveSession: the duration timer
\* The refs of a hook of which only the session calls are followed:
\* durationIntervalRef is the handle the ref holds (0 for null), intervals
\* the set of interval timers that were created by setInterval and not
\* cleared since; a timer is named after the call that created it.
TimerRefs(isLive, durationIntervalRef, intervals) ==
    [isLive |-> isLive, durationIntervalRef |-> durationIntervalRef,
     intervals |-> intervals]

\* A call of the hook suspended at its await of the engine.
Suspended(call, id) == [call |-> call, id |-> id]

\* A freshly mounted hook, no call under way.
InitTimers ==
    /\ state = createInitialState("sales")
    /\ cooldownTracker = EmptyTracker
    /\ now = StartClock
    /\ ticks = 0
    /\ lastDispatchMs = 0
    /\ lastAction = Ran(NULL)
    /\ engine = [sessionId |-> 0, mode |-> "sales",
                 state |-> SessionEngine_createInitialState,
                 updateCallback |-> FALSE,
                 analysisDebounceTrigger |-> 0,
                 awaiting |-> "none", speech |-> FALSE]
    /\ hook = TimerRefs(FALSE, 0, {})
    /\ inflight = {}
    /\ session = NoSession
    /\ sessionCount = 0
    /\ heard = 0
    /\ stopRequested = {}
    /\ notified = FALSE
    /\ saved = [sid \in 0..MaxSessions |-> 0]
    /\ spoken = NULL
    /\ stopAgain = [at |-> "none", calls |-> 0]

\* What the calls of the hook leave alone here.
TimerFrame ==
    UNCHANGED <<now, ticks, lastDispatchMs, engine, session, heard,
                stopRequested, notified, saved, spoken, stopAgain>>

\* clearInterval(durationIntervalRef.current) and the ref set to null, as
\* stopSession and cancelSession do, with isLiveRef cleared before.
ClearedRefs(h) ==
    TimerRefs(FALSE, 0,
              IF h.durationIntervalRef # 0
              THEN h.intervals \ {h.durationIntervalRef}
              ELSE h.intervals)

\* useLiveSession.startSession up to `await sessionEngineRef.current
\* .startSession(...)`: cooldowns reset, isLiveRef set, START_SESSION
\* dispatched.
callStartSession(mode) ==
    /\ sessionCount < MaxSessions
    /\ sessionCount' = sessionCount + 1
    /\ cooldownTracker' = resetAllCooldowns
    /\ hook' = [hook EXCEPT !.isLive = TRUE]
    /\ state' = sessionReducer(state,
                               [type |-> "START_SESSION", mode |-> mode,
                                startTime |-> now],
                               resetAllCooldowns, now).state
    /\ inflight' = inflight \cup {Suspended("startSession", sessionCount + 1)}
    /\ lastAction' = Ran("startSession")
    /\ TimerFrame

\* The engine's startSession resolves true: the hook creates the duration
\* interval and stores its handle in durationIntervalRef.
startSessionStarted ==
    \E c \in inflight :
        /\ c.call = "startSession"
        /\ inflight' = inflight \ {c}
        /\ hook' = [hook EXCEPT !.durationIntervalRef = c.id,
                                !.intervals = @ \cup {c.id}]
        /\ lastAction' = Ran("startSessionStarted")
        /\ UNCHANGED <<state, cooldownTracker, sessionCount>>
        /\ TimerFrame

\* The engine's startSession resolves false: isLiveRef cleared, SET_ERROR
\* dispatched.
startSessionNotStarted ==
    \E c \in inflight, message \in ErrorMessages :
        /\ c.call = "startSession"
        /\ inflight' = inflight \ {c}
        /\ hook' = [hook EXCEPT !.isLive = FALSE]
        /\ state' = sessionReducer(state, [type |-> "SET_ERROR",
                                           message |-> message],
                                   cooldownTracker, now).state
        /\ lastAction' = Ran("startSessionNotStarted")
        /\ UNCHANGED <<cooldownTracker, sessionCount>>
        /\ TimerFrame

\* useLiveSession.stopSession up to its await of the engine's stopSession:
\* isLiveRef cleared, the timer of the ref cleared, STOP_SESSION dispatched.
callStopSession ==
    /\ hook' = ClearedRefs(hook)
    /\ state' = sessionReducer(state, [type |-> "STOP_SESSION"],
                               cooldownTracker, now).state
    /\ inflight' = inflight \cup {Suspended("stopSession", 0)}
    /\ lastAction' = Ran("stopSession")
    /\ UNCHANGED <<cooldownTracker, sessionCount>>
    /\ TimerFrame

\* useLiveSession.cancelSession up to its await of the engine's
\* cancelSession: isLiveRef cleared, the timer of the ref cleared.
callCancelSession ==
    /\ hook' = ClearedRefs(hook)
    /\ inflight' = inflight \cup {Suspended("cancelSession", 0)}
    /\ lastAction' = Ran("cancelSession")
    /\ UNCHANGED <<state, cooldownTracker, sessionCount>>
    /\ TimerFrame

\* The engine's stopSession or cancelSession resolves: RESET dispatched.
stopOrCancelResolved ==
    \E c \in inflight :
        /\ c.call \in {"stopSession", "cancelSession"}
        /\ inflight' = inflight \ {c}
        /\ state' = sessionReducer(state, [type |-> "RESET"],
                                   cooldownTracker, now).state
        /\ lastAction' = Ran(c.call \o "Resolved")
        /\ UNCHANGED <<hook, cooldownTracker, sessionCount>>
        /\ TimerFrame

NextTimers ==
    \/ callStartSession("sales")
    \/ startSessionStarted
    \/ startSessionNotStarted
    \/ callStopSession
    \/ callCancelSession
    \/ stopOrCancelResolved

SpecTimers == InitTimers /\ [][NextTimers]_vars

\* ---------------------------------------------------------------- C36
\* C36: at most one duration interval timer exists per hook at any time,
\* under every interleaving of startSession, stopSession and cancelSession.
C36_SingleDurationTimer == Cardinality(hook.intervals) <= 1

\* Two interval timers at once, of which the ref holds the later.
C36_TwoTimers ==
    /\ Cardinality(hook.intervals) = 2
    /\ hook.durationIntervalRef \in hook.intervals

\* A timer that outlives the stop: stopSession ran while startSession was
\* awaiting the engine, and the interval was created afterwards.
C36_TimerAfterStop ==
    /\ ~hook.isLive
    /\ hook.intervals # {}
    /\ inflight = {}
    /\ state.status = "IDLE"

\* ---------------------------------------------------------------- C37
SortedByConfidence(patterns) ==
    \A i \in 1..(Len(patterns) - 1) :
        patterns[i].confidenceScore >= patterns[i + 1].confidenceScore

\* detectedPatterns after the TACTIC_DETECTED events carrying `first` and
\* then `second` were reduced on the state s.
DeliveredInOrder(s, first, second) ==
    LET event(patterns) ==
            [type |-> "TACTIC_DETECTED", patterns |-> patterns,
             focusScore |-> 100, timestampMs |-> now]
        one == sessionReducer(s, event(first), cooldownTracker, now)
        two == sessionReducer(one.state, event(second), one.tracker, now)
    IN two.state.detectedPatterns

\* C37: for any running state and any two TACTIC_DETECTED events,
\* delivering them in either order yields detectedPatterns with the same set
\* of pattern ids, sorted by confidence descending.
C37_OrderIndependence ==
    IsRunning(state) =>
        \A first, second \in PatternLists :
            LET forth == DeliveredInOrder(state, first, second)
                back == DeliveredInOrder(state, second, first)
            IN /\ PatternIds(forth) = PatternIds(back)
               /\ SortedByConfidence(forth)
               /\ SortedByConfidence(back)

\* A running session that holds the patterns of two deliveries, the one
\* delivered last sorted in front of one delivered before, with a further
\* pair of lists for which the two orders give different sequences.
C37_Witness ==
    /\ IsRunning(state)
    /\ lastAction.type = "TACTIC_DETECTED"
    /\ lastAction.added >= 1
    /\ Len(state.detectedPatterns) > lastAction.added
    /\ state.detectedPatterns[1].id = "strength_signal_4"
    /\ \E first, second \in PatternLists :
           DeliveredInOrder(state, first, second)
               # DeliveredInOrder(state, second, first)

\* ---------------------------------------------------------------- C38
\* Sessions in which fragments are transcribed and classified while the
\* timers of the engine and of the hook fire; a start may fail and a
\* session may be stopped.
NextFold ==
    \/ startSession("sales")
    \/ startRecordingResolved
    \/ startRecordingFailed
    \/ onTranscription({"t1"}, MaxHeard)
    \/ analysisDebounceFires
    \/ onAnalysisResult
    \/ analysisDebounceRefFires
    \/ durationIntervalFires
    \/ stopSession
    \/ stopRecordingResolved
    \/ saveSessionResolved

\* setInterval(..., 1000): a duration interval that exists keeps firing.
SpecFold ==
    /\ Init /\ [][NextFold]_vars
    /\ WF_vars(durationIntervalFires)
    /\ WF_vars(startRecordingResolved \/ startRecordingFailed)

\* Session n is running: it is the latest session started, the reducer's
\* status is RUNNING and the hook holds it live.
SessionRunning(n) ==
    sessionCount = n /\ state.status = "RUNNING" /\ hook.isLive

\* Session n has the reducer's status RUNNING.
StatusRunning(n) == sessionCount = n /\ state.status = "RUNNING"

RecordedByEngine(p) == p.id \in PatternIds(engine.state.detectedPatterns)

FoldedIntoState(p) == p.id \in PatternIds(state.detectedPatterns)

\* Every pattern the engine has recorded is among the reducer's
\* detectedPatterns.
AllFolded ==
    \A p \in DetectedPatterns : RecordedByEngine(p) => FoldedIntoState(p)

C38_EventuallyFoldedByStatus ==
    \A n \in 1..MaxSessions :
        StatusRunning(n) ~> (AllFolded \/ ~StatusRunning(n))

C38_WaitingForTick ==
    /\ sessionCount = 1
    /\ heard = 1
    /\ SessionRunning(1)
    /\ ~hook.analysisDebounce.armed
    /\ lastAction.type = "analysisDebounceRefFires"
    /\ ~AllFolded

\* --------------------------------------------- SessionEngine: auto-save
\* The engine of which only the session id and the auto-save timer are
\* followed: autoSaveInterval is the handle the field holds (0 for null),
\* intervals the set of interval timers that were created by setInterval
\* and not cleared since; a timer is named after the session whose start
\* created it.
AutoSaveEngine(sessionId, autoSaveInterval, intervals) ==
    [sessionId |-> sessionId, autoSaveInterval |-> autoSaveInterval,
     intervals |-> intervals]

\* A freshly constructed engine and an empty storage: under a session key
\* is stored nothing ("none"), a Session whose summary is the empty one of
\* performAutoSave ("empty"), or one whose summary was generated;
\* `session` is the set of the ids of the Sessions stopSession has returned.
InitAutoSave ==
    /\ state = createInitialState("sales")
    /\ cooldownTracker = EmptyTracker
    /\ now = StartClock
    /\ ticks = 0
    /\ lastDispatchMs = 0
    /\ lastAction = Ran(NULL)
    /\ engine = AutoSaveEngine(0, 0, {})
    /\ hook = TimerRefs(FALSE, 0, {})
    /\ inflight = {}
    /\ session = {}
    /\ sessionCount = 0
    /\ heard = 0
    /\ stopRequested = {}
    /\ notified = FALSE
    /\ saved = [sid \in 0..MaxSessions |-> "none"]
    /\ spoken = NULL
    /\ stopAgain = [at |-> "none", calls |-> 0]

\* What the methods of the engine leave alone here.
AutoSaveFrame ==
    UNCHANGED <<state, cooldownTracker, now, ticks, lastDispatchMs, hook,
                heard, notified, spoken, stopAgain>>

\* AsyncStorage.setItem(sessionKey, JSON.stringify(session)), the first
\* statement of LocalStorageService.saveSession: writes take effect in the
\* order of the calls.
setItem(sv, sid, summary) == [sv EXCEPT ![sid] = summary]

\* SessionEngine.startSession up to its awaits of getSettings() and
\* speechService.startRecording(): a new session id is generated, whatever
\* the engine was doing.
engineStartSession ==
    /\ sessionCount < MaxSessions
    /\ sessionCount' = sessionCount + 1
    /\ engine' = [engine EXCEPT !.sessionId = sessionCount + 1]
    /\ inflight' = inflight \cup {Suspended("startSession", sessionCount + 1)}
    /\ lastAction' = Ran("startSession")
    /\ UNCHANGED <<saved, session, stopRequested>>
    /\ AutoSaveFrame

\* startRecording() resolves true: startAutoSave() creates an interval and
\* stores its handle in autoSaveInterval.
engineStartResolved ==
    \E c \in inflight :
        /\ c.call = "startSession"
        /\ inflight' = inflight \ {c}
        /\ engine' = [engine EXCEPT !.autoSaveInterval = c.id,
                                    !.intervals = @ \cup {c.id}]
        /\ lastAction' = Ran("startAutoSave")
        /\ UNCHANGED <<saved, session, sessionCount, stopRequested>>
        /\ AutoSaveFrame

\* startRecording() resolves false: startSession returns false.
engineStartFailed ==
    \E c \in inflight :
        /\ c.call = "startSession"
        /\ inflight' = inflight \ {c}
        /\ lastAction' = Ran("startSessionFailed")
        /\ UNCHANGED <<engine, saved, session, sessionCount, stopRequested>>
        /\ AutoSaveFrame

\* stopAutoSave(): the timer autoSaveInterval names is cleared.
stopAutoSave(e) ==
    IF e.autoSaveInterval # 0
    THEN [e EXCEPT !.intervals = @ \ {e.autoSaveInterval},
                   !.autoSaveInterval = 0]
    ELSE e

\* SessionEngine.stopSession with a session id, up to its await of
\* speechService.stopRecording(); without a session id it returns null.
engineStopSession ==
    /\ engine.sessionId # 0
    /\ engine' = stopAutoSave(engine)
    /\ stopRequested' = stopRequested \cup {engine.sessionId}
    /\ inflight' = inflight \cup {Suspended("stopSession", 0)}
    /\ lastAction' = Ran("stopSession")
    /\ UNCHANGED <<saved, session, sessionCount>>
    /\ AutoSaveFrame

\* stopRecording() resolves: the Session is built with id this.sessionId
\* and the generated summary, and saveSession(session) is called.
engineStopSaves ==
    \E c \in inflight :
        /\ c.call = "stopSession"
        /\ inflight' = (inflight \ {c})
                           \cup {Suspended("saveSession", engine.sessionId)}
        /\ saved' = setItem(saved, engine.sessionId, "generated")
        /\ lastAction' = Ran("saveSession")
        /\ UNCHANGED <<engine, session, sessionCount, stopRequested>>
        /\ AutoSaveFrame

\* saveSession() and calculateStats() resolve: the session id is dropped
\* and the Session returned.
engineStopReturns ==
    \E c \in inflight :
        /\ c.call = "saveSession"
        /\ inflight' = inflight \ {c}
        /\ engine' = [engine EXCEPT !.sessionId = 0]
        /\ session' = session \cup {c.id}
        /\ lastAction' = Ran("stopSessionReturned")
        /\ UNCHANGED <<saved, sessionCount, stopRequested>>
        /\ AutoSaveFrame

\* An auto-save interval fires: performAutoSave() returns without a session
\* id, and otherwise calls saveSession with a Session of that id and the
\* empty summary.
autoSaveIntervalFires ==
    \E timer \in engine.intervals :
        /\ IF engine.sessionId = 0
           THEN UNCHANGED <<saved, inflight>>
           ELSE /\ saved' = setItem(saved, engine.sessionId, "empty")
                /\ inflight' = inflight \cup
                       {Suspended("performAutoSave", engine.sessionId)}
        /\ lastAction' = [type |-> "performAutoSave",
                          delivered |-> timer, added |-> engine.sessionId]
        /\ UNCHANGED <<engine, session, sessionCount, stopRequested>>
        /\ AutoSaveFrame

\* The saveSession() of a performAutoSave resolves.
autoSaveResolved ==
    \E c \in inflight :
        /\ c.call = "performAutoSave"
        /\ inflight' = inflight \ {c}
        /\ lastAction' = Ran("autoSaveCompleted")
        /\ UNCHANGED <<engine, saved, session, sessionCount, stopRequested>>
        /\ AutoSaveFrame

NextAutoSave ==
    \/ engineStartSession
    \/ engineStartResolved
    \/ engineStartFailed
    \/ engineStopSession
    \/ engineStopSaves
    \/ engineStopReturns
    \/ autoSaveIntervalFires
    \/ autoSaveResolved

SpecAutoSave == InitAutoSave /\ [][NextAutoSave]_vars

\* ---------------------------------------------------------------- C39
\* C39: once stopSession has returned the Session of a session id, the
\* record stored under that id is the one with the generated summary.
C39_FinalRecordKept ==
    \A sid \in session : saved[sid] = "generated"

\* C39: no auto-save writes the record of a session whose stopSession has
\* been called.
C39_NoAutoSaveAfterStop ==
    [][(lastAction'.type = "performAutoSave"
            /\ saved' # saved)
        => engine.sessionId \notin stopRequested]_vars

\* A timer the engine no longer holds a handle of fires while stopSession
\* awaits the storage, and the empty summary replaces the generated one.
C39_Overwritten ==
    /\ lastAction.type = "performAutoSave"
    /\ engine.sessionId \in stopRequested
    /\ saved[engine.sessionId] = "empty"
    /\ \E c \in inflight : c.call = "saveSession" /\ c.id = engine.sessionId

====
